---- MODULE Spec2Model ----
(***************************************************************************)
(* fasthtcacheclean: the bounded priority queue, the recursive cache       *)
(* scanner, the parallel dispatcher and the deletion loop, as a state      *)
(* machine.  Times are microseconds; paths are nodes of a finite tree      *)
(* whose names are character sequences, so that the scanner's              *)
(* classification by name is computed, not assumed.                        *)
(***************************************************************************)
EXTENDS Integers, Sequences, FiniteSets, TLC

VARIABLES
    heap,       \* CachePriorityQueue.heap: the BinaryHeap's array (max at index 1)
    limit,      \* CachePriorityQueue.limit
    pushed,     \* history: the items handed to push since construction / clear,
                \* as a multiset (kept in ascending order)
    results,    \* the vector into_sorted_vec() returned, <<>> before
    qstate,     \* "live" while the queue exists, "consumed" after into_sorted_vec
    fs,         \* the cache tree: per node, presence, mtime, atime, header bytes
    faults,     \* I/O errors the environment may still inject
    pc,         \* the main thread's position
    jobs,       \* Config.jobs
    stats,      \* process_folder_parallel's Stats (behind the mutex while workers run)
    usage,      \* the value calculate_usage() last returned to the main thread
    idx,        \* deletion loop: entries of `results` processed so far
    channel,    \* the bounded channel's buffer
    workers,    \* the spawned worker threads
    events      \* history: what the scanner and the deletion loop did

qvars == <<heap, limit, pushed, results, qstate>>
pvars == <<fs, faults, pc, jobs, stats, usage, idx, channel, workers, events>>
vars == <<heap, limit, pushed, results, qstate,
          fs, faults, pc, jobs, stats, usage, idx, channel, workers, events>>

-----------------------------------------------------------------------------
(* Bounds of the model *)

\* largest limit a queue of the unit specification is created with
MaxLimit == 3
\* number of push operations the unit specification performs
MaxPushes == 4
\* I/O errors the environment may inject in one run
MaxFaults == 1
\* comparisons-and-swaps of one vector in the comparator's unit specification
MaxSwaps == 3
\* calls of count and count_folder on one Stats value in its unit specification
MaxCalls == 3
\* longest sequence the unit specification of Sum adds up
MaxSeq == 3
\* most root entries, and largest Config.jobs, the unit specification of the
\* partition into chunks is given
MaxEntries == 10
MaxChunkJobs == 4
\* largest Config.jobs
MaxJobs == 2
\* capacity of the channel (channel::bounded(1000) in the source, scaled down)
ChannelCap == 1
\* u64::MAX, scaled down to seven bits
U64_MAX == 127
\* length of a deletion chunk (results.chunks(10) in the source, scaled down)
DeleteChunk == 2

-----------------------------------------------------------------------------
(* Program constants *)

MAX_DELETE_COUNT == 1000000
MicrosPerSec == 1000000
\* SystemTime::now() of the run, in microseconds
Now == 700000000

None == "None"

-----------------------------------------------------------------------------
(* Names and paths *)

CACHE_HEADER_SUFFIX == <<".", "h", "e", "a", "d", "e", "r">>
CACHE_DATA_SUFFIX == <<".", "d", "a", "t", "a">>
CACHE_VDIR_SUFFIX == <<".", "v", "a", "r", "y">>
CACHE_HEADER_VDIR_EXTENSION == <<"h", "e", "a", "d", "e", "r", ".", "v", "a", "r", "y">>
AP_TEMPFILE_BASE == <<"a", "p", "t", "m", "p">>
AP_TEMPFILE_SUFFIX == <<"X", "X", "X", "X", "X", "X">>

\* byte value of the characters the tree's names use
Byte(c) ==
    CASE c = "." -> 46
      [] c = "A" -> 65 [] c = "B" -> 66 [] c = "C" -> 67 [] c = "D" -> 68
      [] c = "E" -> 69 [] c = "F" -> 70 [] c = "G" -> 71 [] c = "H" -> 72
      [] c = "I" -> 73 [] c = "J" -> 74 [] c = "K" -> 75 [] c = "L" -> 76
      [] c = "X" -> 88
      [] c = "a" -> 97 [] c = "b" -> 98 [] c = "d" -> 100 [] c = "e" -> 101
      [] c = "f" -> 102
      [] c = "h" -> 104 [] c = "m" -> 109 [] c = "p" -> 112 [] c = "q" -> 113
      [] c = "r" -> 114 [] c = "s" -> 115 [] c = "t" -> 116 [] c = "v" -> 118
      [] c = "w" -> 119 [] c = "y" -> 121 [] c = "z" -> 122

\* the tree the scanner may meet: every node's parent, name and kind
Root == "."
Tree ==
    [ x \in {"aptmpABCDEF", "a", "b",
             "a/aptmpGHIJKL", "a/aptmpLKJIHG", "a/v.header", "a/v.data", "a/q.data", "a/v.header.vary",
             "a/v.header.vary/s", "a/v.header.vary/s/w.header", "a/v.header.vary/s/w.data",
             "b/y.header", "b/y.data", "b/e", "b/e/f", "b/e/z.data"} |->
        CASE x = "aptmpABCDEF" ->
                [parent |-> Root, dir |-> FALSE,
                 name |-> <<"a", "p", "t", "m", "p", "A", "B", "C", "D", "E", "F">>]
          [] x = "a" -> [parent |-> Root, dir |-> TRUE, name |-> <<"a">>]
          [] x = "b" -> [parent |-> Root, dir |-> TRUE, name |-> <<"b">>]
          [] x = "a/aptmpGHIJKL" ->
                [parent |-> "a", dir |-> FALSE,
                 name |-> <<"a", "p", "t", "m", "p", "G", "H", "I", "J", "K", "L">>]
          [] x = "a/aptmpLKJIHG" ->
                [parent |-> "a", dir |-> TRUE,
                 name |-> <<"a", "p", "t", "m", "p", "L", "K", "J", "I", "H", "G">>]
          [] x = "a/v.header" ->
                [parent |-> "a", dir |-> FALSE,
                 name |-> <<"v", ".", "h", "e", "a", "d", "e", "r">>]
          [] x = "a/v.data" ->
                [parent |-> "a", dir |-> FALSE, name |-> <<"v", ".", "d", "a", "t", "a">>]
          [] x = "a/q.data" ->
                [parent |-> "a", dir |-> TRUE, name |-> <<"q", ".", "d", "a", "t", "a">>]
          [] x = "a/v.header.vary" ->
                [parent |-> "a", dir |-> TRUE,
                 name |-> <<"v", ".", "h", "e", "a", "d", "e", "r", ".", "v", "a", "r", "y">>]
          [] x = "a/v.header.vary/s" ->
                [parent |-> "a/v.header.vary", dir |-> TRUE, name |-> <<"s">>]
          [] x = "a/v.header.vary/s/w.header" ->
                [parent |-> "a/v.header.vary/s", dir |-> FALSE,
                 name |-> <<"w", ".", "h", "e", "a", "d", "e", "r">>]
          [] x = "a/v.header.vary/s/w.data" ->
                [parent |-> "a/v.header.vary/s", dir |-> FALSE,
                 name |-> <<"w", ".", "d", "a", "t", "a">>]
          [] x = "b/y.header" ->
                [parent |-> "b", dir |-> FALSE,
                 name |-> <<"y", ".", "h", "e", "a", "d", "e", "r">>]
          [] x = "b/y.data" ->
                [parent |-> "b", dir |-> FALSE, name |-> <<"y", ".", "d", "a", "t", "a">>]
          [] x = "b/e" -> [parent |-> "b", dir |-> TRUE, name |-> <<"e">>]
          [] x = "b/e/f" -> [parent |-> "b/e", dir |-> TRUE, name |-> <<"f">>]
          [] x = "b/e/z.data" ->
                [parent |-> "b/e", dir |-> FALSE, name |-> <<"z", ".", "d", "a", "t", "a">>] ]

Nodes == DOMAIN Tree

\* str::starts_with
StartsWith(name, prefix) ==
    /\ Len(name) >= Len(prefix)
    /\ SubSeq(name, 1, Len(prefix)) = prefix

\* str::ends_with
EndsWith(name, suffix) ==
    /\ Len(name) >= Len(suffix)
    /\ SubSeq(name, Len(name) - Len(suffix) + 1, Len(name)) = suffix

\* str::strip_suffix: <<stem>> for Some(stem), <<>> for None
StripSuffix(name, suffix) ==
    IF EndsWith(name, suffix) THEN <<SubSeq(name, 1, Len(name) - Len(suffix))>> ELSE <<>>

\* position of the last "." of a name that starts an extension (0: none);
\* a leading dot starts no extension
RECURSIVE LastDot(_, _)
LastDot(name, i) ==
    IF i <= 1 THEN 0
    ELSE IF name[i] = "." THEN i
    ELSE LastDot(name, i - 1)

\* PathBuf::set_extension on the file name
SetExtension(name, ext) ==
    LET d == LastDot(name, Len(name))
        stem == IF d = 0 THEN name ELSE SubSeq(name, 1, d - 1)
    IN  stem \o <<".">> \o ext

\* the node of directory `dir` named `name`, or None when the tree has none
Lookup(dir, name) ==
    LET hit == {x \in Nodes : Tree[x].parent = dir /\ Tree[x].name = name}
    IN  IF hit = {} THEN None ELSE CHOOSE x \in hit : TRUE

\* the components of a node's path below the root
RECURSIVE Components(_)
Components(x) ==
    IF x = Root THEN <<>> ELSE Append(Components(Tree[x].parent), Tree[x].name)

\* Ordering of two integers as -1, 0, 1
CmpInt(a, b) == IF a < b THEN -1 ELSE IF a > b THEN 1 ELSE 0

\* byte-wise lexicographic order of two names
RECURSIVE CmpName(_, _)
CmpName(a, b) ==
    IF a = <<>> /\ b = <<>> THEN 0
    ELSE IF a = <<>> THEN -1
    ELSE IF b = <<>> THEN 1
    ELSE IF Byte(Head(a)) # Byte(Head(b)) THEN CmpInt(Byte(Head(a)), Byte(Head(b)))
    ELSE CmpName(Tail(a), Tail(b))

\* Path::cmp: component-wise
RECURSIVE CmpComponents(_, _)
CmpComponents(a, b) ==
    IF a = <<>> /\ b = <<>> THEN 0
    ELSE IF a = <<>> THEN -1
    ELSE IF b = <<>> THEN 1
    ELSE IF CmpName(Head(a), Head(b)) # 0 THEN CmpName(Head(a), Head(b))
    ELSE CmpComponents(Tail(a), Tail(b))

CmpPath(p, q) == CmpComponents(Components(p), Components(q))

-----------------------------------------------------------------------------
(* CacheFileInfo *)

Max(a, b) == IF a >= b THEN a ELSE b

\* an order by the first key and the path alone
CmpFirstKey(a, b) ==
    LET cmp1 == CmpInt(Max(a.expiry, a.modified), Max(b.expiry, b.modified))
    IN  IF cmp1 = 0 THEN CmpPath(a.header_path, b.header_path) ELSE cmp1

\* impl Ord for CacheFileInfo
Cmp(a, b) ==
    LET cmp1 == CmpInt(Max(a.expiry, a.modified), Max(b.expiry, b.modified))
        cmp2 == CmpInt(Max(a.accessed, a.modified), Max(b.accessed, b.modified))
        cmp3 == CmpInt(a.modified, b.modified)
    IN  IF cmp1 = 0 /\ cmp2 = 0 /\ cmp3 = 0 THEN CmpPath(a.header_path, b.header_path)
        ELSE IF cmp1 = 0 /\ cmp2 = 0 THEN cmp3
        ELSE IF cmp1 = 0 THEN cmp2
        ELSE cmp1

\* a sequence with x inserted before the first element greater than it
RECURSIVE InsertAscending(_, _)
InsertAscending(x, s) ==
    IF s = <<>> THEN <<x>>
    ELSE IF Cmp(x, Head(s)) < 0 THEN <<x>> \o s
    ELSE <<Head(s)>> \o InsertAscending(x, Tail(s))

-----------------------------------------------------------------------------
(* BinaryHeap, as CachePriorityQueue uses it *)

Swap(s, i, j) == [s EXCEPT ![i] = s[j], ![j] = s[i]]

\* sift_up: move the element at pos up while it is greater than its parent
RECURSIVE SiftUp(_, _)
SiftUp(s, pos) ==
    IF pos <= 1 THEN s
    ELSE LET parent == pos \div 2
         IN  IF Cmp(s[pos], s[parent]) <= 0 THEN s
             ELSE SiftUp(Swap(s, pos, parent), parent)

\* sift_down_range: move the element at pos down within s[1..end]
RECURSIVE SiftDownRange(_, _, _)
SiftDownRange(s, pos, end) ==
    LET l == 2 * pos
        r == 2 * pos + 1
    IN  IF l > end THEN s
        ELSE LET child == IF r <= end /\ Cmp(s[l], s[r]) <= 0 THEN r ELSE l
             IN  IF Cmp(s[pos], s[child]) >= 0 THEN s
                 ELSE SiftDownRange(Swap(s, pos, child), child, end)

\* sift_down_to_bottom: move the element at pos to a leaf along the greater
\* children, then sift it up
RECURSIVE SiftDownToBottom(_, _, _)
SiftDownToBottom(s, pos, end) ==
    LET l == 2 * pos
        r == 2 * pos + 1
    IN  IF l > end THEN SiftUp(s, pos)
        ELSE LET child == IF r <= end /\ Cmp(s[l], s[r]) <= 0 THEN r ELSE l
             IN  SiftDownToBottom(Swap(s, pos, child), child, end)

\* BinaryHeap::peek: <<max>> for Some(max), <<>> for None
HeapPeek(s) == IF s = <<>> THEN <<>> ELSE <<s[1]>>

\* BinaryHeap::push
HeapPush(s, item) == SiftUp(Append(s, item), Len(s) + 1)

\* BinaryHeap::pop, the heap it leaves
HeapPop(s) ==
    IF s = <<>> THEN s
    ELSE LET n == Len(s)
             rest == SubSeq(s, 1, n - 1)
         IN  IF rest = <<>> THEN rest
             ELSE SiftDownToBottom([rest EXCEPT ![1] = s[n]], 1, n - 1)

\* BinaryHeap::into_sorted_vec: in-place heap sort
RECURSIVE HeapSort(_, _)
HeapSort(s, end) ==
    IF end <= 1 THEN s
    ELSE HeapSort(SiftDownRange(Swap(s, 1, end), 1, end - 1), end - 1)

-----------------------------------------------------------------------------
(* CachePriorityQueue *)

\* a push that, at the limit, always makes room for the new item
PushNewest(s, lim, item) ==
    IF Len(s) >= lim THEN HeapPush(HeapPop(s), item) ELSE HeapPush(s, item)

\* CachePriorityQueue::push, the heap it leaves
Push(s, lim, item) ==
    IF Len(s) >= lim
    THEN IF HeapPeek(s) # <<>> /\ Cmp(item, HeapPeek(s)[1]) > 0
         THEN s
         ELSE HeapPush(HeapPop(s), item)
    ELSE HeapPush(s, item)

\* the heap's vector as it lies, unsorted
HeapAsVec(s) == s

\* CachePriorityQueue::into_sorted_vec
IntoSortedVec(s) == HeapSort(s, Len(s))

\* CachePriorityQueue::len
QueueLen(s) == Len(s)


-----------------------------------------------------------------------------
(* f64, for the non-negative values the program computes: a value is zero, a
   number m * 2^exp with 1 <= m < 2, infinity or NaN.  The 53 bits of the
   significand m are kept as its leading 1 and four limbs of 13 bits; every
   operation rounds to nearest, ties to even *)

\* 2^13: the 52 bits behind the leading one of an f64, in four limbs
Limb == 8192

F64Zero == [cls |-> "zero", exp |-> 0, m |-> <<>>]
F64Inf == [cls |-> "inf", exp |-> 0, m |-> <<>>]
F64NaN == [cls |-> "nan", exp |-> 0, m |-> <<>>]

\* the number of bits of a natural number below 2^14
BitLen(n) == Cardinality({k \in 0..13 : 2^k <= n})

\* a significand plus one unit in the last place; 0 at m[1] says it reached 2
RECURSIVE IncLimbs(_, _)
IncLimbs(m, i) ==
    IF i = 1 THEN [m EXCEPT ![1] = 0]
    ELSE IF m[i] < Limb - 1 THEN [m EXCEPT ![i] = m[i] + 1]
    ELSE IncLimbs([m EXCEPT ![i] = 0], i - 1)

\* the significand m at exponent e, rounded up if up holds
F64Round(m, e, up) ==
    IF ~up THEN [cls |-> "num", exp |-> e, m |-> m]
    ELSE LET n == IncLimbs(m, 5)
         IN  IF n[1] = 0 THEN [cls |-> "num", exp |-> e + 1, m |-> <<1, 0, 0, 0, 0>>]
             ELSE [cls |-> "num", exp |-> e, m |-> n]

\* n / d with d <= n < 2d, at exponent e: long division, 13 bits at a time
F64DivNormal(n, d, e) ==
    LET r1 == n - d
        r2 == (r1 * Limb) % d
        r3 == (r2 * Limb) % d
        r4 == (r3 * Limb) % d
        r5 == (r4 * Limb) % d
        m == <<1, (r1 * Limb) \div d, (r2 * Limb) \div d, (r3 * Limb) \div d,
               (r4 * Limb) \div d>>
    IN  F64Round(m, e, 2 * r5 > d \/ (2 * r5 = d /\ m[5] % 2 = 1))

RECURSIVE F64DivScale(_, _, _)
F64DivScale(n, d, e) ==
    IF n < d THEN F64DivScale(2 * n, d, e - 1)
    ELSE IF n >= 2 * d THEN F64DivScale(n, 2 * d, e + 1)
    ELSE F64DivNormal(n, d, e)

\* (n as f64) / (d as f64) for natural numbers that f64 holds exactly
F64Div(n, d) ==
    IF d = 0 THEN (IF n = 0 THEN F64NaN ELSE F64Inf)
    ELSE IF n = 0 THEN F64Zero
    ELSE F64DivScale(n, d, 0)

\* x * (t as f64) for a natural number t that f64 holds exactly: the exact
\* product limb by limb, then moved right until its leading part is 1
F64MulNat(x, t) ==
    IF x.cls \in {"inf", "nan"} THEN (IF t = 0 THEN F64NaN ELSE x)
    ELSE IF x.cls = "zero" \/ t = 0 THEN F64Zero
    ELSE LET v5 == x.m[5] * t
             v4 == x.m[4] * t + (v5 \div Limb)
             v3 == x.m[3] * t + (v4 \div Limb)
             v2 == x.m[2] * t + (v3 \div Limb)
             v1 == x.m[1] * t + (v2 \div Limb)
             p == <<v1, v2 % Limb, v3 % Limb, v4 % Limb, v5 % Limb>>
             extra == BitLen(v1) - 1
             low == 2^extra
             kept == [i \in 1..5 |->
                        IF i = 1 THEN p[1] \div low
                        ELSE (p[i - 1] % low) * (Limb \div low) + (p[i] \div low)]
             lost == p[5] % low
             up == /\ extra > 0
                   /\ \/ 2 * lost > low
                      \/ 2 * lost = low /\ kept[5] % 2 = 1
         IN  F64Round(kept, x.exp + extra, up)

\* x as u64: the integer part, saturating, NaN as 0
F64AsInt(x, max) ==
    IF x.cls \in {"zero", "nan"} THEN 0
    ELSE IF x.cls = "inf" THEN max
    ELSE IF x.exp < 0 THEN 0
    ELSE IF x.exp >= BitLen(max) THEN max
    ELSE LET n == 2^(x.exp) + (x.m[2] \div 2^(13 - x.exp))
         IN  IF n > max THEN max ELSE n

\* x > y, as f64 compares: false when either is NaN
F64Gt(x, y) ==
    IF x.cls = "nan" \/ y.cls = "nan" THEN FALSE
    ELSE IF x.cls = "inf" THEN y.cls # "inf"
    ELSE IF y.cls = "inf" THEN FALSE
    ELSE IF x.cls = "zero" THEN FALSE
    ELSE IF y.cls = "zero" THEN TRUE
    ELSE IF x.exp # y.exp THEN x.exp > y.exp
    ELSE \E i \in 1..5 : x.m[i] > y.m[i] /\ \A j \in 1..(i - 1) : x.m[j] = y.m[j]

\* x >= y, as f64 compares
F64Ge(x, y) == x.cls # "nan" /\ y.cls # "nan" /\ ~F64Gt(y, x)

-----------------------------------------------------------------------------
(* The file system *)

Absent == [present |-> FALSE, mtime |-> 0, atime |-> 0, tag |-> 0, expiry |-> 0]

\* a time after `now`: when the run itself touches something
Later == Now + 1

Exists(fsv, x) == x # None /\ fsv[x].present

Children(fsv, d) == {x \in Nodes : Tree[x].parent = d /\ fsv[x].present}

\* st_nlink of a directory: ".", its entry in the parent, and one ".." per subdirectory
Nlink(fsv, d) == 2 + Cardinality({x \in Children(fsv, d) : Tree[x].dir})

\* DirEntry::metadata / Path::metadata of an existing node
Metadata(fsv, x) ==
    [is_dir |-> Tree[x].dir, is_file |-> ~Tree[x].dir,
     nlink |-> IF Tree[x].dir THEN Nlink(fsv, x) ELSE 1,
     modified |-> fsv[x].mtime, accessed |-> fsv[x].atime]

\* the tree after unlinking x: its directory's mtime is set
Unlink(fsv, x) ==
    LET d == Tree[x].parent
        gone == [fsv EXCEPT ![x] = Absent]
    IN  IF d = Root THEN gone ELSE [gone EXCEPT ![d].mtime = Later]

\* std::fs::remove_file: the possible outcomes [ok, fs, faults]
RemoveFile(fsv, fl, x) ==
    IF ~Exists(fsv, x) \/ Tree[x].dir
    THEN {[ok |-> FALSE, fs |-> fsv, faults |-> fl]}
    ELSE {[ok |-> TRUE, fs |-> Unlink(fsv, x), faults |-> fl]}
         \cup IF fl > 0
              THEN {[ok |-> FALSE, fs |-> fsv, faults |-> fl - 1]}
              ELSE {}

\* std::fs::remove_dir: outcomes [res, fs, faults], res one of "ok", "notempty", "err"
RemoveDir(fsv, fl, x) ==
    IF ~Exists(fsv, x) \/ ~Tree[x].dir
    THEN {[res |-> "err", fs |-> fsv, faults |-> fl]}
    ELSE (IF Children(fsv, x) # {}
          THEN {[res |-> "notempty", fs |-> fsv, faults |-> fl]}
          ELSE {[res |-> "ok", fs |-> Unlink(fsv, x), faults |-> fl]})
         \cup IF fl > 0
              THEN {[res |-> "err", fs |-> fsv, faults |-> fl - 1]}
              ELSE {}

\* an age test that wants more than `seconds` whole seconds
NotRecentStrict(t, seconds) == t <= Now /\ (Now - t) \div MicrosPerSec > seconds

\* a test that takes a time later than `now` for an old one
NotRecentOrLater(t, seconds) == t > Now \/ (Now - t) \div MicrosPerSec >= seconds

\* now.duration_since(t) is Ok(d) with d.as_secs() >= seconds
NotRecent(t, seconds) == t <= Now /\ (Now - t) \div MicrosPerSec >= seconds

-----------------------------------------------------------------------------
(* Stats *)

ZeroStats == [deleted |-> 0, deleted_folders |-> 0, failed |-> 0]

\* a counter of failures that stands still
AddNothing(st) == st

\* Stats::add_failed
AddFailed(st) == [st EXCEPT !.failed = @ + 1]

\* a folder count that takes Err for Ok(false)
CountFolderLax(st, r) ==
    IF r = "true" THEN [st EXCEPT !.deleted_folders = @ + 1] ELSE st

\* Stats::count_folder
CountFolder(st, r) ==
    CASE r = "true" -> [st EXCEPT !.deleted_folders = @ + 1]
      [] r = "false" -> st
      [] r = "err" -> [st EXCEPT !.failed = @ + 1]

\* a count that forgets the result
CountNothing(st, r) == st

\* Stats::count of Ok(true) / Ok(false) / Err
Count(st, r) ==
    CASE r = "true" -> [st EXCEPT !.deleted = @ + 1]
      [] r = "false" -> st
      [] r = "err" -> [st EXCEPT !.failed = @ + 1]

\* a merge that writes the other value over the counters
MergeOverwrite(st, other) == other

\* a merge_result that takes Err for an empty Stats
MergeResultLax(st, r) ==
    IF r = <<>> THEN st
    ELSE [deleted |-> st.deleted + r[1].deleted,
          deleted_folders |-> st.deleted_folders + r[1].deleted_folders,
          failed |-> st.failed + r[1].failed]

\* Stats::merge_result of Ok(stats), written <<stats>>, or Err, written <<>>
MergeResult(st, r) ==
    IF r = <<>> THEN [st EXCEPT !.failed = @ + 1]
    ELSE [deleted |-> st.deleted + r[1].deleted,
          deleted_folders |-> st.deleted_folders + r[1].deleted_folders,
          failed |-> st.failed + r[1].failed]

\* Stats::merge
Merge(st, other) ==
    [deleted |-> st.deleted + other.deleted,
     deleted_folders |-> st.deleted_folders + other.deleted_folders,
     failed |-> st.failed + other.failed]

-----------------------------------------------------------------------------
(* Deleting files and folders *)

\* delete_file_if_not_recent: outcomes [res, fs, faults, tried]; tried says
\* whether remove_file was called
DeleteFileIfNotRecent(fsv, fl, x, seconds) ==
    IF ~Exists(fsv, x)
    THEN {[res |-> "err", fs |-> fsv, faults |-> fl, tried |-> FALSE]}
    ELSE LET metadata == Metadata(fsv, x)
         IN  IF ~metadata.is_file
                \/ ~NotRecent(metadata.modified, seconds)
                \/ ~NotRecent(metadata.accessed, seconds)
             THEN {[res |-> "false", fs |-> fsv, faults |-> fl, tried |-> FALSE]}
             ELSE {[res |-> IF r.ok THEN "true" ELSE "err", fs |-> r.fs,
                    faults |-> r.faults, tried |-> TRUE] : r \in RemoveFile(fsv, fl, x)}

\* a folder deletion without the nlink shortcut
DeleteFolderNoShortcut(fsv, fl, x, meta, seconds) ==
    IF meta = <<>> /\ ~Exists(fsv, x)
    THEN {[res |-> "err", fs |-> fsv, faults |-> fl, tried |-> FALSE]}
    ELSE LET metadata == IF meta = <<>> THEN Metadata(fsv, x) ELSE meta[1]
         IN  IF ~metadata.is_dir
                \/ ~NotRecent(metadata.modified, seconds)
                \/ ~NotRecent(metadata.accessed, seconds)
             THEN {[res |-> "false", fs |-> fsv, faults |-> fl, tried |-> FALSE]}
             ELSE {[res |-> CASE r.res = "ok" -> "true"
                              [] r.res = "notempty" -> "false"
                              [] r.res = "err" -> "err",
                    fs |-> r.fs, faults |-> r.faults, tried |-> TRUE]
                   : r \in RemoveDir(fsv, fl, x)}

\* delete_folder_if_not_recent: outcomes [res, fs, faults, tried]; meta is
\* <<metadata>> when the caller passes Some(metadata), <<>> for None
DeleteFolderIfNotRecent(fsv, fl, x, meta, seconds) ==
    IF meta = <<>> /\ ~Exists(fsv, x)
    THEN {[res |-> "err", fs |-> fsv, faults |-> fl, tried |-> FALSE]}
    ELSE LET metadata == IF meta = <<>> THEN Metadata(fsv, x) ELSE meta[1]
         IN  IF ~metadata.is_dir
                \/ metadata.nlink > 2
                \/ ~NotRecent(metadata.modified, seconds)
                \/ ~NotRecent(metadata.accessed, seconds)
             THEN {[res |-> "false", fs |-> fsv, faults |-> fl, tried |-> FALSE]}
             ELSE {[res |-> CASE r.res = "ok" -> "true"
                              [] r.res = "notempty" -> "false"
                              [] r.res = "err" -> "err",
                    fs |-> r.fs, faults |-> r.faults, tried |-> TRUE]
                   : r \in RemoveDir(fsv, fl, x)}

-----------------------------------------------------------------------------
(* Headers *)

\* a parse that takes every unknown format tag for the Disk format
ParseAnyTag(tag, micros) ==
    IF tag = 5 THEN <<[format |-> "Vary", expiry |-> micros]>>
    ELSE <<[format |-> "Disk", expiry |-> micros]>>

\* apache_cache::parse: <<Header>> for Ok, <<>> for an unknown format tag
Parse(tag, micros) ==
    CASE tag = 5 -> <<[format |-> "Vary", expiry |-> micros]>>
      [] tag = 6 -> <<[format |-> "Disk", expiry |-> micros]>>
      [] OTHER -> <<>>

\* CacheFileInfo::new: <<CacheFileInfo>> for Ok, <<>> for Err
CacheFileInfoNew(fsv, x) ==
    IF ~Exists(fsv, x) \/ Tree[x].dir THEN <<>>
    ELSE LET header_info == Parse(fsv[x].tag, fsv[x].expiry)
         IN  IF header_info = <<>> THEN <<>>
             ELSE <<[header_path |-> x, format |-> header_info[1].format,
                     expiry |-> header_info[1].expiry,
                     modified |-> fsv[x].mtime, accessed |-> fsv[x].atime]>>

\* a data_path that leaves the extension as it is
DataPathSame(info) == info.header_path

\* CacheFileInfo::data_path, as a node (None when the tree has no such node)
DataPath(info) ==
    Lookup(Tree[info.header_path].parent,
           SetExtension(Tree[info.header_path].name,
                        SubSeq(CACHE_DATA_SUFFIX, 2, Len(CACHE_DATA_SUFFIX))))

\* CacheFileInfo::vary_path, as a node
VaryPath(info) ==
    Lookup(Tree[info.header_path].parent,
           SetExtension(Tree[info.header_path].name, CACHE_HEADER_VDIR_EXTENSION))

\* a reader that takes no header for a Vary header
NeverVary(info) == FALSE

\* CacheFileInfo::is_vary
IsVary(info) == info.format = "Vary"


-----------------------------------------------------------------------------
(* scan_folder: one directory entry *)

\* what the history records of one step: which entry, under which flags, what
\* the tree looked like, and what the code did
NoEvent ==
    [kind |-> "-", node |-> None, in_vary |-> FALSE, desperate |-> FALSE,
     seconds |-> 0, known |-> FALSE, header |-> FALSE, file |-> FALSE,
     modified |-> 0, accessed |-> 0, format |-> "-", subdirs |-> FALSE,
     tried |-> FALSE, removed |-> FALSE, sent |-> FALSE,
     deleted |-> 0, failed |-> 0, order |-> 0,
     nlink |-> 0, empty |-> FALSE, current |-> 0, folders |-> 0,
     err |-> FALSE, data |-> "-", arg |-> "-"]

\* the name is a temporary file's: "aptmp" and six more characters
IsTempName(name) ==
    /\ Len(name) = Len(AP_TEMPFILE_BASE) + Len(AP_TEMPFILE_SUFFIX)
    /\ StartsWith(name, AP_TEMPFILE_BASE)

\* a frame of scan_folder: the directory, the entries read_dir has yet to
\* yield, in_vary, known_headers, the local Stats, and the metadata the
\* caller read before recursing (<<>>: none, or the top-level call)
Frame(d, fsv, in_vary, meta) ==
    [dir |-> d, items |-> Children(fsv, d), in_vary |-> in_vary, known |-> {},
     stats |-> ZeroStats, meta |-> meta]

\* the history's record of an age-rule deletion (temporary or orphaned file)
FileEvent(kind, fsv, f, x, desperate, seconds, known, header, o) ==
    [NoEvent EXCEPT !.kind = kind, !.node = x, !.in_vary = f.in_vary,
                    !.desperate = desperate, !.seconds = seconds,
                    !.known = known, !.header = header,
                    !.file = Exists(fsv, x) /\ ~Tree[x].dir,
                    !.modified = fsv[x].mtime, !.accessed = fsv[x].atime,
                    !.tried = o.tried,
                    !.removed = (Exists(fsv, x) /\ ~Exists(o.fs, x)),
                    !.err = (o.res = "err"),
                    !.deleted = Count(ZeroStats, o.res).deleted,
                    !.failed = Count(ZeroStats, o.res).failed]

\* lib.rs 278-282: a temporary file
ScanTemp(fsv, fl, f, x, desperate) ==
    {[fs |-> o.fs, faults |-> o.faults, stats |-> Count(f.stats, o.res),
      known |-> f.known, send |-> <<>>, enter |-> <<>>,
      ev |-> {FileEvent("temp", fsv, f, x, desperate, 600, FALSE, FALSE, o)}]
     : o \in DeleteFileIfNotRecent(fsv, fl, x, 600)}

\* the sibling `.header.vary` of header x is a directory with subdirectories
HasVarySubdirs(fsv, x) ==
    LET v == Lookup(Tree[x].parent, Tree[x].name \o CACHE_VDIR_SUFFIX)
    IN  Exists(fsv, v) /\ Tree[v].dir /\ Nlink(fsv, v) > 2

\* a scanner that protects the main header in desperate mode as well
KeepEvenDesperate(fsv, fileinfo, desperate) ==
    LET vdir_path == VaryPath(fileinfo)
    IN  /\ Exists(fsv, vdir_path)
        /\ Metadata(fsv, vdir_path).is_dir
        /\ Metadata(fsv, vdir_path).nlink > 2

\* a scanner that protects no header
KeepNoHeader(fsv, fileinfo, desperate) == FALSE

\* lib.rs 301-310: outside desperate mode the main header is kept while its
\* vary directory has subdirectories
KeepMainHeader(fsv, fileinfo, desperate) ==
    LET vdir_path == VaryPath(fileinfo)
    IN  /\ ~desperate
        /\ Exists(fsv, vdir_path)
        /\ Metadata(fsv, vdir_path).is_dir
        /\ Metadata(fsv, vdir_path).nlink > 2

\* CacheFileInfo::new on entry x, whose stat, open or read the environment
\* may fail: outcomes [new, faults]
ReadHeader(fsv, fl, x) ==
    {[new |-> CacheFileInfoNew(fsv, x), faults |-> fl]}
    \cup IF fl > 0 /\ CacheFileInfoNew(fsv, x) # <<>>
         THEN {[new |-> <<>>, faults |-> fl - 1]}
         ELSE {}

\* the history's record ev with what the step added to the local Stats
Counted(ev, before, after) ==
    [ev EXCEPT !.deleted = after.deleted - before.deleted,
               !.failed = after.failed - before.failed,
               !.folders = after.deleted_folders - before.deleted_folders]

\* lib.rs 284-316: a header file
ScanHeader(fsv, fl, f, x, desperate, stem) ==
    UNION {
    LET known == f.known \cup {stem}
        new == h.new
        ev == [NoEvent EXCEPT !.kind = "header", !.node = x, !.in_vary = f.in_vary,
                              !.desperate = desperate, !.known = (stem \in known),
                              !.format = IF new = <<>> THEN "Err" ELSE new[1].format,
                              !.subdirs = HasVarySubdirs(fsv, x)]
    IN  IF new = <<>>
        THEN {[fs |-> fsv, faults |-> h.faults, stats |-> AddFailed(f.stats),
               known |-> known, send |-> <<>>, enter |-> <<>>,
               ev |-> {Counted(ev, f.stats, AddFailed(f.stats))}]}
        ELSE LET fileinfo == new[1]
             IN  IF ~f.in_vary /\ IsVary(fileinfo)
                 THEN {LET keep == KeepMainHeader(r.fs, fileinfo, desperate)
                           st == Count(f.stats, IF r.ok THEN "true" ELSE "false")
                       IN  [fs |-> r.fs, faults |-> r.faults,
                            stats |-> st,
                            known |-> known,
                            send |-> IF keep THEN <<>> ELSE <<fileinfo>>,
                            enter |-> <<>>,
                            ev |-> {Counted([ev EXCEPT !.tried = TRUE, !.removed = r.ok,
                                                       !.err = ~r.ok,
                                                       !.sent = ~keep], f.stats, st)}]
                       : r \in RemoveFile(fsv, h.faults, DataPath(fileinfo))}
                 ELSE {[fs |-> fsv, faults |-> h.faults, stats |-> f.stats,
                        known |-> known, send |-> <<fileinfo>>, enter |-> <<>>,
                        ev |-> {[ev EXCEPT !.sent = TRUE]}]}
    : h \in ReadHeader(fsv, fl, x)}

\* a scanner that takes every data file for an orphan
AlwaysOrphan(known, stem, fsv, header_path) == TRUE

\* lib.rs 319-323: the header of a data file is neither known nor on disk
IsOrphan(known, stem, fsv, header_path) ==
    stem \notin known /\ ~Exists(fsv, header_path)

\* lib.rs 318-328: a data file
ScanData(fsv, fl, f, x, desperate, stem) ==
    LET header_path ==
            Lookup(Tree[x].parent,
                   SetExtension(Tree[x].name,
                                SubSeq(CACHE_HEADER_SUFFIX, 2, Len(CACHE_HEADER_SUFFIX))))
        none == [res |-> "false", fs |-> fsv, faults |-> fl, tried |-> FALSE]
    IN  IF IsOrphan(f.known, stem, fsv, header_path)
        THEN {[fs |-> o.fs, faults |-> o.faults, stats |-> Count(f.stats, o.res),
               known |-> f.known, send |-> <<>>, enter |-> <<>>,
               ev |-> {FileEvent("data", fsv, f, x, desperate, 120, stem \in f.known,
                                 Exists(fsv, header_path), o)}]
              : o \in DeleteFileIfNotRecent(fsv, fl, x, 120)}
        ELSE {[fs |-> fsv, faults |-> fl, stats |-> f.stats, known |-> f.known,
               send |-> <<>>, enter |-> <<>>,
               ev |-> {FileEvent("data", fsv, f, x, desperate, 120, stem \in f.known,
                                 Exists(fsv, header_path), none)}]}

\* the history's record of a folder deletion after the recursion into x: the
\* metadata the test used, the directory as it is on disk, and the outcome
FolderEvent(fsv, x, in_vary, meta, o) ==
    LET metadata == IF meta # <<>> THEN meta[1]
                    ELSE IF Exists(fsv, x) THEN Metadata(fsv, x)
                    ELSE [is_dir |-> FALSE, is_file |-> FALSE, nlink |-> 0,
                          modified |-> 0, accessed |-> 0]
    IN  [NoEvent EXCEPT !.kind = "folder", !.node = x, !.in_vary = in_vary,
                        !.seconds = 300, !.file = metadata.is_file,
                        !.modified = metadata.modified, !.accessed = metadata.accessed,
                        !.nlink = metadata.nlink,
                        !.empty = (Children(fsv, x) = {}),
                        !.current = fsv[x].mtime,
                        !.tried = o.tried,
                        !.removed = (Exists(fsv, x) /\ ~Exists(o.fs, x)),
                        !.err = (o.res = "err"),
                        !.folders = CountFolder(ZeroStats, o.res).deleted_folders,
                        !.failed = CountFolder(ZeroStats, o.res).failed]

\* the history's record of a scan_folder call whose read_dir failed
ReadDirEvent(x, in_vary, before, after) ==
    Counted([NoEvent EXCEPT !.kind = "readdir", !.node = x, !.in_vary = in_vary,
                            !.err = TRUE], before, after)

\* lib.rs 330-345: a directory to recurse into; meta is <<>> for a vary
\* directory, <<metadata>> for another directory.  When read_dir fails the
\* recursion's Err is merged and the folder deletion runs at once.
ScanDir(fsv, fl, f, x, in_vary, meta) ==
    LET failing(budget) ==
            {[fs |-> o.fs, faults |-> o.faults,
              stats |-> CountFolder(AddFailed(f.stats), o.res), known |-> f.known,
              send |-> <<>>, enter |-> <<>>,
              ev |-> {ReadDirEvent(x, in_vary, f.stats, AddFailed(f.stats)),
                      FolderEvent(fsv, x, in_vary, meta, o)}]
             : o \in DeleteFolderIfNotRecent(fsv, budget, x, meta, 300)}
    IN  IF Exists(fsv, x) /\ Tree[x].dir
        THEN {[fs |-> fsv, faults |-> fl, stats |-> f.stats, known |-> f.known,
               send |-> <<>>, enter |-> <<Frame(x, fsv, in_vary, meta)>>, ev |-> {}]}
             \cup IF fl > 0 THEN failing(fl - 1) ELSE {}
        ELSE failing(fl)

\* a loop body that hands no metadata to the folder deletion, which then
\* reads it after the recursion for every directory
ScanEntryReread(fsv, fl, f, x, desperate) ==
    LET name == Tree[x].name
        header == StripSuffix(name, CACHE_HEADER_SUFFIX)
        data == StripSuffix(name, CACHE_DATA_SUFFIX)
    IN  IF IsTempName(name) THEN ScanTemp(fsv, fl, f, x, desperate)
        ELSE IF header # <<>> THEN ScanHeader(fsv, fl, f, x, desperate, header[1])
        ELSE IF data # <<>> THEN ScanData(fsv, fl, f, x, desperate, data[1])
        ELSE IF EndsWith(name, CACHE_VDIR_SUFFIX)
        THEN ScanDir(fsv, fl, f, x, TRUE, <<>>)
        ELSE IF Exists(fsv, x) /\ Metadata(fsv, x).is_dir
        THEN ScanDir(fsv, fl, f, x, f.in_vary, <<>>)
        ELSE {[fs |-> fsv, faults |-> fl, stats |-> f.stats, known |-> f.known,
               send |-> <<>>, enter |-> <<>>, ev |-> {}]}

\* lib.rs 274-347: the loop body of scan_folder for entry x, by its name
ScanEntry(fsv, fl, f, x, desperate) ==
    LET name == Tree[x].name
        header == StripSuffix(name, CACHE_HEADER_SUFFIX)
        data == StripSuffix(name, CACHE_DATA_SUFFIX)
    IN  IF IsTempName(name) THEN ScanTemp(fsv, fl, f, x, desperate)
        ELSE IF header # <<>> THEN ScanHeader(fsv, fl, f, x, desperate, header[1])
        ELSE IF data # <<>> THEN ScanData(fsv, fl, f, x, desperate, data[1])
        ELSE IF EndsWith(name, CACHE_VDIR_SUFFIX)
        THEN ScanDir(fsv, fl, f, x, TRUE, <<>>)
        ELSE IF Exists(fsv, x) /\ Metadata(fsv, x).is_dir
        THEN ScanDir(fsv, fl, f, x, f.in_vary, <<Metadata(fsv, x)>>)
        ELSE {[fs |-> fsv, faults |-> fl, stats |-> f.stats, known |-> f.known,
               send |-> <<>>, enter |-> <<>>, ev |-> {}]}


-----------------------------------------------------------------------------
(* Usage *)

\* calculate_usage()'s possible results, in tenths of a percent
UsageValues == {890, 900, 985, 990, 992, 995, 1050, 1060}

\* the thresholds 90.0, 99.0, 99.5 and 105.0, in tenths of a percent
USAGE_RUN == 900
USAGE_STOP == 990
USAGE_MAY_STOP == 995
USAGE_DESPERATE == 1050

\* values rng.gen::<u8>() may return
U8Samples == {0, 1, 255}

-----------------------------------------------------------------------------
(* main and process_folder_parallel: the main thread *)

\* a start-up that prunes at any usage
MainStartNoGate ==
    /\ pc = "main"
    /\ \E u \in UsageValues : usage' = u
    /\ pc' = "temp"
    /\ UNCHANGED <<qvars, fs, faults, jobs, stats, idx, channel, workers, events>>

\* main.rs 596-612: compute the usage, prune only at 90 % or more
MainStart ==
    /\ pc = "main"
    /\ \E u \in UsageValues :
        /\ usage' = u
        /\ pc' = IF u >= USAGE_RUN THEN "temp" ELSE "skipped"
    /\ UNCHANGED <<qvars, fs, faults, jobs, stats, idx, channel, workers, events>>

\* the first loop of process_folder_parallel over a set of root entries:
\* outcomes [fs, faults, stats, ev]
RECURSIVE TempPass(_, _, _, _, _)
TempPass(fsv, fl, st, evs, items) ==
    IF items = {} THEN {[fs |-> fsv, faults |-> fl, stats |-> st, ev |-> evs]}
    ELSE LET x == CHOOSE y \in items : TRUE
             f == [in_vary |-> FALSE]
         IN  IF IsTempName(Tree[x].name)
             THEN UNION {TempPass(o.fs, o.faults, Count(st, o.res),
                                  evs \cup {FileEvent("roottemp", fsv, f, x, FALSE, 600,
                                                      FALSE, FALSE, o)},
                                  items \ {x})
                         : o \in DeleteFileIfNotRecent(fsv, fl, x, 600)}
             ELSE TempPass(fsv, fl, st, evs, items \ {x})

\* lib.rs 165-180: clean old temporary files of the cache root
RootTempPass ==
    /\ pc = "temp"
    /\ \E o \in TempPass(fs, faults, ZeroStats, {}, Children(fs, Root)) :
        /\ fs' = o.fs
        /\ faults' = o.faults
        /\ stats' = o.stats
        /\ events' = events \cup o.ev
    /\ pc' = "spawn"
    /\ usage' = 0
    /\ UNCHANGED <<qvars, jobs, idx, channel, workers>>

\* the orders in which shuffle may leave a set of entries
Shuffles(S) ==
    {p \in [1..Cardinality(S) -> S] : \A i, j \in DOMAIN p : p[i] = p[j] => i = j}

\* slice::chunks
RECURSIVE Chunks(_, _)
Chunks(seq, size) ==
    IF seq = <<>> THEN <<>>
    ELSE IF Len(seq) <= size THEN <<seq>>
    ELSE <<SubSeq(seq, 1, size)>> \o Chunks(SubSeq(seq, size + 1, Len(seq)), size)

\* a chunk size without the one added: the quotient, or 1 if that is 0
ChunkSizeQuotient(len, j) == IF len \div j = 0 THEN 1 ELSE len \div j

\* a chunk size that rounds the quotient up
ChunkSizeCeil(len, j) == ((len + j - 1) \div j) + 1

\* lib.rs 183
ChunkSize(len, j) == (len \div j) + 1

\* lib.rs 182-207: read the root again, shuffle, spawn one worker per chunk
Spawn ==
    /\ pc = "spawn"
    /\ \E folders \in Shuffles(Children(fs, Root)) :
        LET chunks == Chunks(folders, ChunkSize(Len(folders), jobs))
        IN  workers' = [w \in 1..Len(chunks) |->
                           [state |-> "run", chunk |-> chunks[w], stack |-> <<>>,
                            pending |-> <<>>, desperate |-> FALSE]]
    /\ pc' = "drain"
    /\ UNCHANGED <<qvars, fs, faults, jobs, stats, usage, idx, channel, events>>

\* a main thread that leaves what it receives in the channel
RecvNothing ==
    /\ pc = "drain"
    /\ channel # <<>>
    /\ UNCHANGED vars

\* lib.rs 209-211: one iteration of the receive loop
Recv ==
    /\ pc = "drain"
    /\ channel # <<>>
    /\ heap' = Push(heap, limit, Head(channel))
    /\ pushed' = InsertAscending(Head(channel), pushed)
    /\ channel' = Tail(channel)
    /\ UNCHANGED <<limit, results, qstate, fs, faults, pc, jobs, stats, usage, idx,
                   workers, events>>

\* a receive loop that ends as soon as the channel is empty
DrainEarly ==
    /\ pc = "drain"
    /\ channel = <<>>
    /\ results' = IntoSortedVec(heap)
    /\ heap' = <<>>
    /\ qstate' = "consumed"
    /\ idx' = 0
    /\ pc' = IF heap = <<>> THEN "done" ELSE "delete"
    /\ UNCHANGED <<limit, pushed, fs, faults, jobs, stats, usage, channel, workers, events>>

\* lib.rs 209-219: every sender is dropped and the channel is empty: the
\* scope joins and the queue is sorted
DrainEnd ==
    /\ pc = "drain"
    /\ channel = <<>>
    /\ \A w \in DOMAIN workers : workers[w].state = "done"
    /\ results' = IntoSortedVec(heap)
    /\ heap' = <<>>
    /\ qstate' = "consumed"
    /\ idx' = 0
    /\ pc' = IF heap = <<>> THEN "done" ELSE "delete"
    /\ UNCHANGED <<limit, pushed, fs, faults, jobs, stats, usage, channel, workers, events>>

\* a process_header_file that removes the header file first
ProcessHeaderFirst(fsv, fl, fileinfo) ==
    UNION {{[res |-> IF h.ok THEN "true" ELSE "err", fs |-> d.fs, faults |-> d.faults,
             data |-> IF d.ok THEN "removed" ELSE "failed", mid |-> h.fs]
            : d \in RemoveFile(h.fs, h.faults, DataPath(fileinfo))}
           : h \in RemoveFile(fsv, fl, fileinfo.header_path)}

\* process_header_file: outcomes [res, fs, faults, data, mid]; data says how
\* the removal of the data file went, mid is the tree between the two calls
ProcessHeaderFile(fsv, fl, fileinfo) ==
    UNION {{[res |-> IF h.ok THEN "true" ELSE "err", fs |-> h.fs, faults |-> h.faults,
             data |-> IF d.ok THEN "removed" ELSE "failed", mid |-> d.fs]
            : h \in RemoveFile(d.fs, d.faults, fileinfo.header_path)}
           : d \in RemoveFile(fsv, fl, DataPath(fileinfo))}

\* a deletion loop that looks at the usage after every entry
DeleteEntryCheckEach ==
    /\ pc = "delete"
    /\ idx < Len(results)
    /\ \E o \in ProcessHeaderFile(fs, faults, results[idx + 1]) :
        /\ fs' = o.fs
        /\ faults' = o.faults
        /\ stats' = Count(stats, o.res)
        /\ events' = events \cup
                {Counted([NoEvent EXCEPT
                              !.kind = "delete",
                              !.node = results[idx + 1].header_path,
                              !.order = idx + 1, !.tried = TRUE,
                              !.removed = (Exists(fs, results[idx + 1].header_path)
                                           /\ ~Exists(o.fs, results[idx + 1].header_path)),
                              !.err = (o.res = "err"), !.data = o.data,
                              !.file = Exists(fs, DataPath(results[idx + 1])),
                              !.header = Exists(o.mid, results[idx + 1].header_path),
                              !.empty = ~Exists(o.mid, DataPath(results[idx + 1]))],
                         stats, Count(stats, o.res))}
    /\ idx' = idx + 1
    /\ pc' = "check"
    /\ usage' = 0
    /\ UNCHANGED <<qvars, jobs, channel, workers>>

\* a deletion loop that does not move on to the next entry
DeleteEntryStuck ==
    /\ pc = "delete"
    /\ idx < Len(results)
    /\ UNCHANGED vars

\* lib.rs 220-223: the next entry of the current chunk
DeleteEntry ==
    /\ pc = "delete"
    /\ idx < Len(results)
    /\ \E o \in ProcessHeaderFile(fs, faults, results[idx + 1]) :
        /\ fs' = o.fs
        /\ faults' = o.faults
        /\ stats' = Count(stats, o.res)
        /\ events' = events \cup
                {Counted([NoEvent EXCEPT
                              !.kind = "delete",
                              !.node = results[idx + 1].header_path,
                              !.order = idx + 1, !.tried = TRUE,
                              !.removed = (Exists(fs, results[idx + 1].header_path)
                                           /\ ~Exists(o.fs, results[idx + 1].header_path)),
                              !.err = (o.res = "err"), !.data = o.data,
                              !.file = Exists(fs, DataPath(results[idx + 1])),
                              !.header = Exists(o.mid, results[idx + 1].header_path),
                              !.empty = ~Exists(o.mid, DataPath(results[idx + 1]))],
                         stats, Count(stats, o.res))}
    /\ idx' = idx + 1
    /\ pc' = IF (idx + 1) % DeleteChunk = 0 \/ idx + 1 = Len(results)
             THEN "check" ELSE "delete"
    /\ usage' = 0
    /\ UNCHANGED <<qvars, jobs, channel, workers>>

\* a loop that also leaves at 99.5 % and above, up to 105 %
CheckUsageLax ==
    /\ pc = "check"
    /\ \E u \in UsageValues :
        /\ usage' = u
        /\ pc' = IF u <= USAGE_DESPERATE \/ idx = Len(results) THEN "done" ELSE "delete"
    /\ UNCHANGED <<qvars, fs, faults, jobs, stats, idx, channel, workers, events>>

\* lib.rs 224-228: after a chunk, leave the loop or go on
CheckUsage ==
    /\ pc = "check"
    /\ \E u \in UsageValues, r \in U8Samples :
        /\ usage' = u
        /\ pc' = IF u < USAGE_STOP \/ (u < USAGE_MAY_STOP /\ r < 1) THEN "done"
                 ELSE IF idx = Len(results) THEN "done"
                 ELSE "delete"
    /\ UNCHANGED <<qvars, fs, faults, jobs, stats, idx, channel, workers, events>>

-----------------------------------------------------------------------------
(* The worker threads *)

Top(w) == workers[w].stack[Len(workers[w].stack)]

\* a desperate mode that begins at 105 % already
DesperateFrom(u) == u >= USAGE_DESPERATE

\* lib.rs 250: desperate = usage > 105.0
Desperate(u) == u > USAGE_DESPERATE

\* the history's record of worker w entering process_folder for `folder`
BeginEvent(w, folder, desperate) ==
    [NoEvent EXCEPT !.kind = "begin", !.node = folder, !.order = w,
                    !.desperate = desperate]

\* a worker that passes over an entry that is no directory and counts nothing
BeginFolderSkip(w) ==
    /\ workers[w].state = "run"
    /\ workers[w].stack = <<>>
    /\ workers[w].chunk # <<>>
    /\ \E u \in UsageValues :
        LET folder == Head(workers[w].chunk)
            desperate == Desperate(u)
            readable == Exists(fs, folder) /\ Tree[folder].dir
        IN  \/ /\ readable
               /\ workers' = [workers EXCEPT
                                  ![w].stack = <<Frame(folder, fs, FALSE, <<>>)>>,
                                  ![w].desperate = desperate]
               /\ events' = events \cup {BeginEvent(w, folder, desperate)}
               /\ UNCHANGED <<stats, faults>>
            \/ /\ ~readable \/ faults > 0
               /\ workers' = [workers EXCEPT ![w].chunk = Tail(@),
                                             ![w].desperate = FALSE]
               /\ stats' = IF readable THEN AddFailed(stats) ELSE stats
               /\ faults' = IF readable THEN faults - 1 ELSE faults
               /\ events' = events \cup
                       {ReadDirEvent(folder, FALSE, stats, stats')}
    /\ UNCHANGED <<qvars, fs, pc, jobs, usage, idx, channel>>

\* lib.rs 201-203 and 242-252: the worker takes its next folder; process_folder
\* computes the usage and enters scan_folder, whose read_dir may fail
BeginFolder(w) ==
    /\ workers[w].state = "run"
    /\ workers[w].stack = <<>>
    /\ workers[w].chunk # <<>>
    /\ \E u \in UsageValues :
        LET folder == Head(workers[w].chunk)
            desperate == Desperate(u)
            readable == Exists(fs, folder) /\ Tree[folder].dir
        IN  \/ /\ readable
               /\ workers' = [workers EXCEPT
                                  ![w].stack = <<Frame(folder, fs, FALSE, <<>>)>>,
                                  ![w].desperate = desperate]
               /\ events' = events \cup {BeginEvent(w, folder, desperate)}
               /\ UNCHANGED <<stats, faults>>
            \/ /\ ~readable \/ faults > 0
               /\ workers' = [workers EXCEPT ![w].chunk = Tail(@),
                                             ![w].desperate = FALSE]
               /\ stats' = AddFailed(stats)
               /\ faults' = IF readable THEN faults - 1 ELSE faults
               /\ events' = events \cup
                       {ReadDirEvent(folder, FALSE, stats, AddFailed(stats))}
    /\ UNCHANGED <<qvars, fs, pc, jobs, usage, idx, channel>>

\* lib.rs 274-347: scan_folder handles the next entry read_dir yields
ScanStep(w) ==
    /\ workers[w].state = "run"
    /\ workers[w].stack # <<>>
    /\ workers[w].pending = <<>>
    /\ \E x \in Top(w).items :
       \E o \in ScanEntry(fs, faults, Top(w), x, workers[w].desperate) :
        LET n == Len(workers[w].stack)
            f == [Top(w) EXCEPT !.items = @ \ {x}, !.stats = o.stats, !.known = o.known]
        IN  /\ workers' = [workers EXCEPT
                              ![w].stack = [@ EXCEPT ![n] = f] \o o.enter,
                              ![w].pending = o.send]
            /\ fs' = o.fs
            /\ faults' = o.faults
            /\ events' = events \cup o.ev
    /\ UNCHANGED <<qvars, pc, jobs, stats, usage, idx, channel>>

\* lib.rs 312: sender.send, which blocks while the channel is full
Send(w) ==
    /\ workers[w].pending # <<>>
    /\ Len(channel) < ChannelCap
    /\ channel' = Append(channel, workers[w].pending[1])
    /\ workers' = [workers EXCEPT ![w].pending = <<>>]
    /\ UNCHANGED <<qvars, fs, faults, pc, jobs, stats, usage, idx, events>>

\* lib.rs 331-343 and 354: scan_folder returns; the caller merges its Stats and
\* tries to delete the folder, or, at the top, process_folder returns
ScanReturn(w) ==
    /\ workers[w].state = "run"
    /\ workers[w].stack # <<>>
    /\ workers[w].pending = <<>>
    /\ Top(w).items = {}
    /\ LET n == Len(workers[w].stack)
           child == Top(w)
       IN  IF n = 1
           THEN /\ stats' = Merge(stats, child.stats)
                /\ workers' = [workers EXCEPT ![w].stack = <<>>, ![w].chunk = Tail(@),
                                              ![w].desperate = FALSE]
                /\ UNCHANGED <<fs, faults, events>>
           ELSE \E o \in DeleteFolderIfNotRecent(fs, faults, child.dir, child.meta, 300) :
                /\ workers' = [workers EXCEPT
                                  ![w].stack =
                                      [SubSeq(@, 1, n - 1) EXCEPT
                                          ![n - 1].stats =
                                              CountFolder(Merge(@, child.stats), o.res)]]
                /\ fs' = o.fs
                /\ faults' = o.faults
                /\ events' = events \cup
                        {FolderEvent(fs, child.dir, child.in_vary, child.meta, o)}
                /\ UNCHANGED stats
    /\ UNCHANGED <<qvars, pc, jobs, usage, idx, channel>>

\* lib.rs 201-205: the chunk is exhausted; the thread ends and drops its sender
WorkerFinish(w) ==
    /\ workers[w].state = "run"
    /\ workers[w].stack = <<>>
    /\ workers[w].chunk = <<>>
    /\ workers' = [workers EXCEPT ![w].state = "done"]
    /\ UNCHANGED <<qvars, fs, faults, pc, jobs, stats, usage, idx, channel, events>>

Next ==
    \/ MainStart
    \/ RootTempPass
    \/ Spawn
    \/ Recv
    \/ DrainEnd
    \/ DeleteEntry
    \/ CheckUsage
    \/ \E w \in DOMAIN workers : BeginFolder(w)
    \/ \E w \in DOMAIN workers : ScanStep(w)
    \/ \E w \in DOMAIN workers : Send(w)
    \/ \E w \in DOMAIN workers : ScanReturn(w)
    \/ \E w \in DOMAIN workers : WorkerFinish(w)


-----------------------------------------------------------------------------
(* Initial states: the cache trees of the model, before main() runs *)

\* a file or directory last modified m and last accessed a seconds before `now`
Aged(m, a) ==
    [present |-> TRUE, mtime |-> Now - m * MicrosPerSec, atime |-> Now - a * MicrosPerSec,
     tag |-> 0, expiry |-> 0]

\* a header file of format tag `tag` that expires e seconds after `now`
HeaderFile(tag, e, m, a) ==
    [Aged(m, a) EXCEPT !.tag = tag, !.expiry = Now + e * MicrosPerSec]

\* the tree with the given nodes present and every other node absent
TreeOf(given) == [x \in Nodes |-> IF x \in DOMAIN given THEN given[x] ELSE Absent]

Idle ==
    /\ heap = <<>>
    /\ limit = MAX_DELETE_COUNT
    /\ pushed = <<>>
    /\ results = <<>>
    /\ qstate = "live"
    /\ pc = "main"
    /\ stats = ZeroStats
    /\ usage = 0
    /\ idx = 0
    /\ channel = <<>>
    /\ workers = <<>>
    /\ events = {}

\* one node, or nothing when c is <<>>
Maybe(x, c) == IF c = <<>> THEN <<>> ELSE [y \in {x} |-> c[1]]

\* Trees of two top-level folders with Disk-format entries of several ages,
\* and at times a young temporary file in the root, cleaned by one or more jobs
Init ==
    /\ Idle
    /\ jobs \in 1..MaxJobs
    /\ faults = 0
    /\ \E t \in {<<>>, <<Aged(599, 599)>>}, ev \in {-500, 100}, ey \in {-500, 100},
          w \in BOOLEAN :
        fs = TreeOf(
              Maybe("aptmpABCDEF", t)
           @@ (IF w THEN [x \in {"a/v.header.vary", "a/v.header.vary/s",
                                 "a/v.header.vary/s/w.header"} |->
                             IF x = "a/v.header.vary/s/w.header"
                             THEN HeaderFile(6, -500, 400, 300)
                             ELSE Aged(400, 400)]
               ELSE <<>>)
           @@ [x \in {"a", "b", "a/v.header", "a/v.data", "b/y.header", "b/y.data"} |->
                  CASE x = "a/v.header" -> HeaderFile(6, ev, 400, 400)
                    [] x = "b/y.header" -> HeaderFile(6, ey, 400, 400)
                    [] OTHER -> Aged(400, 400)])

Spec == Init /\ [][Next]_vars

\* the steps of worker w
WorkerStep(w) ==
    /\ w \in DOMAIN workers
    /\ \/ BeginFolder(w) \/ ScanStep(w) \/ Send(w) \/ ScanReturn(w) \/ WorkerFinish(w)

\* the scheduler lets every thread that can take a step take one: the main
\* thread in its receive loop, and each worker
Fairness ==
    /\ WF_vars(Recv)
    /\ WF_vars(DrainEnd)
    /\ \A w \in 1..MaxJobs : WF_vars(WorkerStep(w))

\* Trees of two folders with one entry each, at times a second one below a
\* vary directory, and a young temporary file in the root, cleaned by one or
\* more jobs
InitLive ==
    /\ Idle
    /\ jobs \in 1..MaxJobs
    /\ faults = 0
    /\ \E w \in BOOLEAN :
        fs = TreeOf(
              (IF w THEN [x \in {"a/v.header.vary", "a/v.header.vary/s",
                                 "a/v.header.vary/s/w.header"} |->
                             IF x = "a/v.header.vary/s/w.header"
                             THEN HeaderFile(6, -500, 400, 300)
                             ELSE Aged(400, 400)]
               ELSE <<>>)
           @@ [x \in {"aptmpABCDEF", "a", "b", "a/v.header", "b/y.header"} |->
                  CASE x = "a/v.header" -> HeaderFile(6, 100, 400, 400)
                    [] x = "b/y.header" -> HeaderFile(6, -500, 400, 400)
                    [] x = "aptmpABCDEF" -> Aged(10, 10)
                    [] OTHER -> Aged(400, 400)])

SpecLive == InitLive /\ [][Next]_vars /\ Fairness

\* the main thread, once in its deletion loop, keeps running it
FairDelete ==
    /\ WF_vars(DeleteEntry)
    /\ WF_vars(CheckUsage)

SpecDelete == InitLive /\ [][Next]_vars /\ FairDelete

\* ages, in seconds, around the 600 s rule for temporary files
TempAges ==
    {<<Aged(601, 601)>>, <<Aged(600, 600)>>, <<Aged(599, 599)>>, <<Aged(601, 599)>>,
     <<Aged(599, 601)>>, <<Aged(-1, 601)>>}

\* Trees with a temporary file in the root and one in a folder, of every age
\* class, and at times a directory named like one, cleaned by one job; the environment may fail one system call
InitTemp ==
    /\ Idle
    /\ jobs = 1
    /\ faults \in 0..MaxFaults
    /\ \E t \in TempAges \cup {<<>>}, u \in TempAges \cup {<<>>},
          g \in {<<>>, <<Aged(601, 601)>>} :
        fs = TreeOf(
              Maybe("aptmpABCDEF", t)
           @@ Maybe("a/aptmpGHIJKL", u)
           @@ Maybe("a/aptmpLKJIHG", g)
           @@ [x \in {"a", "a/v.header", "a/v.data"} |->
                  IF x = "a/v.header" THEN HeaderFile(6, 100, 400, 400)
                  ELSE Aged(400, 400)])

SpecTemp == InitTemp /\ [][Next]_vars

\* ages, in seconds, around the 120 s rule for orphaned data files
DataAges == {<<Aged(121, 121)>>, <<Aged(120, 120)>>, <<Aged(119, 121)>>, <<Aged(121, 119)>>}

\* the contents of `a/v.header.vary`: nothing, an old empty variant folder, or
\* a variant folder holding an entry of either format
VaryTrees ==
    {<<>>,
     [x \in {"a/v.header.vary"} |-> Aged(400, 400)],
     [x \in {"a/v.header.vary", "a/v.header.vary/s"} |-> Aged(400, 400)]}
    \cup {[x \in {"a/v.header.vary", "a/v.header.vary/s", "a/v.header.vary/s/w.header",
                  "a/v.header.vary/s/w.data"} |->
              IF x = "a/v.header.vary/s/w.header" THEN HeaderFile(tag, -500, 400, 300)
              ELSE Aged(400, 400)] : tag \in {5, 6}}

\* One folder holding an entry of any format (or a broken header, or none), its
\* data file of every age class, a directory named like a data file, and a
\* variant directory, cleaned by one job
InitScan ==
    /\ Idle
    /\ jobs = 1
    /\ faults \in 0..MaxFaults
    /\ \E h \in {<<>>} \cup {<<HeaderFile(tag, 100, 400, 400)>> : tag \in {5, 6, 65536}},
          d \in DataAges \cup {<<>>},
          q \in {<<>>, <<Aged(400, 400)>>},
          v \in VaryTrees :
        fs = TreeOf(
              Maybe("a/v.header", h) @@ Maybe("a/v.data", d) @@ Maybe("a/q.data", q)
           @@ v @@ [x \in {"a"} |-> Aged(400, 400)])

SpecScan == InitScan /\ [][Next]_vars

\* ages, in seconds, around the 300 s rule for folders
FolderAges == {Aged(301, 301), Aged(300, 300), Aged(299, 301), Aged(301, 299)}

\* what folder `b/e` may hold: nothing, an old orphan the scan removes, a
\* young one it keeps, or an old empty folder
FolderContents ==
    {<<>>,
     [x \in {"b/e/z.data"} |-> Aged(121, 121)],
     [x \in {"b/e/z.data"} |-> Aged(10, 10)],
     [x \in {"b/e/f"} |-> Aged(400, 400)]}

\* what folder `a` may hold: a vary directory, empty or with an old empty
\* variant folder; or no folder `a` at all
VaryFolders ==
    {<<>>}
    \cup {[x \in {"a", "a/v.header.vary"} |->
              IF x = "a" THEN Aged(400, 400) ELSE g] : g \in FolderAges}
    \cup {[x \in {"a", "a/v.header.vary", "a/v.header.vary/s"} |->
              IF x = "a/v.header.vary" THEN g ELSE Aged(400, 400)] : g \in FolderAges}

\* Trees with a folder of every age class below `b`, and at times a vary
\* directory below `a`, cleaned by one job
InitFolder ==
    /\ Idle
    /\ jobs = 1
    /\ faults \in 0..MaxFaults
    /\ \E g \in FolderAges, c \in FolderContents, v \in VaryFolders :
        fs = TreeOf(
              c @@ v
           @@ [x \in {"b", "b/e", "b/y.header", "b/y.data"} |->
                  CASE x = "b/e" -> g
                    [] x = "b/y.header" -> HeaderFile(6, 100, 400, 400)
                    [] OTHER -> Aged(400, 400)])

SpecFolder == InitFolder /\ [][Next]_vars

\* ages, in seconds, of the files of the vary-protection scenario
ScenarioAges == {Aged(400, 400), Aged(10, 10)}

\* The vary-protection scenario: one folder holding `v.header` (Vary format,
\* expired or not), `v.data` and `v.header.vary/s/`, the files and the
\* directories of several ages, s empty, cleaned by one job; the environment
\* may fail one system call
InitVary ==
    /\ Idle
    /\ jobs = 1
    /\ faults \in 0..MaxFaults
    /\ \E h \in ScenarioAges, e \in {-500, 100}, d \in ScenarioAges, v \in ScenarioAges,
          g \in FolderAges \cup {Aged(10, 10)} :
        fs = TreeOf(
              [x \in {"a", "a/v.header", "a/v.data", "a/v.header.vary",
                      "a/v.header.vary/s"} |->
                  CASE x = "a" -> Aged(400, 400)
                    [] x = "a/v.header" -> [h EXCEPT !.tag = 5,
                                                     !.expiry = Now + e * MicrosPerSec]
                    [] x = "a/v.data" -> d
                    [] x = "a/v.header.vary" -> v
                    [] x = "a/v.header.vary/s" -> g])

SpecVary == InitVary /\ [][Next]_vars

\* Trees with an old temporary file in the root, a folder `a` holding an entry
\* of either format and at times its data file, and a folder `b` holding an
\* entry and an old empty folder, cleaned by one or more jobs; the environment
\* may fail one system call
InitErr ==
    /\ Idle
    /\ jobs \in 1..MaxJobs
    /\ faults \in 0..MaxFaults
    /\ \E tag \in {5, 6}, d \in {<<>>, <<Aged(400, 400)>>} :
        fs = TreeOf(
              Maybe("a/v.data", d)
           @@ [x \in {"aptmpABCDEF", "a", "b", "a/v.header", "b/y.header", "b/y.data",
                      "b/e"} |->
                  CASE x = "aptmpABCDEF" -> Aged(601, 601)
                    [] x = "a/v.header" -> HeaderFile(tag, -500, 400, 400)
                    [] x = "b/y.header" -> HeaderFile(6, 100, 400, 400)
                    [] OTHER -> Aged(400, 400)])

SpecErr == InitErr /\ [][Next]_vars

-----------------------------------------------------------------------------
(* What the history says about the run *)

\* the steps of one kind the history holds
EventsOf(kind) == {e \in events : e.kind = kind}

\* t lies at least `seconds` whole seconds before `now`
AtLeast(t, seconds) == t + seconds * MicrosPerSec <= Now

\* t lies more than `seconds` seconds before `now`
OlderThan(t, seconds) == t + seconds * MicrosPerSec < Now

\* the scan phase is over
Scanned == pc \in {"delete", "check", "done"}

\* node y lies below directory d
RECURSIVE Under(_, _)
Under(y, d) == y \in Nodes /\ (Tree[y].parent = d \/ Under(Tree[y].parent, d))

\* entry y has its step in the history
Visited(y) ==
    \E e \in events : e.node = y /\ e.kind \in {"temp", "header", "data", "folder"}

\* a directory above y could not be read
Unread(y) == \E e \in EventsOf("readdir") : Under(y, e.node)

-----------------------------------------------------------------------------
(* The queue on its own: new(limit), then push / clear, then into_sorted_vec *)

\* the CacheFileInfo values the unit specification pushes
QItems ==
    [header_path : {"a/v.header", "b/y.header"}, format : {"Disk"},
     expiry : {1 * MicrosPerSec, 2 * MicrosPerSec},
     modified : {1 * MicrosPerSec, 2 * MicrosPerSec},
     accessed : {1 * MicrosPerSec}]

QInit ==
    /\ limit \in 0..MaxLimit
    /\ heap = <<>>
    /\ pushed = <<>>
    /\ results = <<>>
    /\ qstate = "live"
    /\ fs = [x \in Nodes |-> Absent]
    /\ faults = 0
    /\ pc = "unit"
    /\ jobs = 1
    /\ stats = ZeroStats
    /\ usage = 0
    /\ idx = 0
    /\ channel = <<>>
    /\ workers = <<>>
    /\ events = {}

QPush ==
    /\ qstate = "live"
    /\ Len(pushed) < MaxPushes
    /\ \E item \in QItems :
        /\ heap' = Push(heap, limit, item)
        /\ pushed' = InsertAscending(item, pushed)
    /\ UNCHANGED <<limit, results, qstate, pvars>>

QClear ==
    /\ qstate = "live"
    /\ heap # <<>>
    /\ heap' = <<>>
    /\ pushed' = <<>>
    /\ UNCHANGED <<limit, results, qstate, pvars>>

QIntoSortedVec ==
    /\ qstate = "live"
    /\ results' = IntoSortedVec(heap)
    /\ qstate' = "consumed"
    /\ heap' = <<>>
    /\ UNCHANGED <<limit, pushed, pvars>>

QNext == QPush \/ QClear \/ QIntoSortedVec

SpecQueue == QInit /\ [][QNext]_vars

-----------------------------------------------------------------------------
(* Claims about the queue *)

Min(a, b) == IF a <= b THEN a ELSE b

\* two sequences hold the same items up to equality under Ord
SameUnderOrd(s, t) ==
    /\ Len(s) = Len(t)
    /\ \A i \in 1..Len(s) : Cmp(s[i], t[i]) = 0

\* C1: for every limit K and every sequence of n pushes, into_sorted_vec()
\* returns exactly the min(K, n) smallest items pushed, in ascending order.
\* The code violates it for K = 0: push() on an empty heap whose limit is
\* reached finds nothing to peek, pops nothing and inserts.
C1_KeepsSmallest ==
    qstate = "consumed" =>
        SameUnderOrd(results,
                     SubSeq(pushed, 1, Min(limit, Len(pushed))))

\* C1 for limits K >= 1, where it holds
C1_KeepsSmallestPositiveLimit ==
    (qstate = "consumed" /\ limit >= 1) =>
        SameUnderOrd(results,
                     SubSeq(pushed, 1, Min(limit, Len(pushed))))

\* C2: len() <= K in every state reachable by push and clear, for every K >= 0.
\* The code violates it for K = 0, where the queue holds one item.
C2_LenWithinLimit == qstate = "live" => QueueLen(heap) <= limit

\* C2 for limits K >= 1, where it holds
C2_LenWithinPositiveLimit == (qstate = "live" /\ limit >= 1) => QueueLen(heap) <= limit


-----------------------------------------------------------------------------
(* The deletion phase and the start-up gate *)

\* C3: the deletion phase attempts the queued entries in ascending order of
\* the comparator: the k-th removal attempted is that of the k-th smallest
\* entry queued, so the entries processed so far are a prefix of the sorted queue
C3_AscendingPrefix ==
    Scanned =>
        /\ \A i \in 1..(Len(pushed) - 1) : Cmp(pushed[i], pushed[i + 1]) < 0
        /\ {e.order : e \in EventsOf("delete")} = 1..idx
        /\ \A e \in EventsOf("delete") :
            e.order <= Len(pushed) /\ e.node = pushed[e.order].header_path

\* the loop stopped after two of three entries, the first of them from folder
\* b although folder a's sorts first by path
C3_Witness ==
    /\ pc = "done"
    /\ idx = 2
    /\ Len(pushed) = 3
    /\ \E e \in EventsOf("delete") : e.order = 1 /\ e.node = "b/y.header"

\* C5: the usage is evaluated after every full chunk and after the last entry;
\* below 99 % the loop always stops, from 99.5 % on it goes on while entries
\* remain, in between it may do either; reading the usage removes nothing, and once
\* the loop has stopped nothing more happens
C5_StopRule ==
    /\ [][/\ pc = "delete" =>
                pc' = IF idx' % DeleteChunk = 0 \/ idx' = Len(results)
                      THEN "check" ELSE "delete"
          /\ pc = "check" =>
                /\ usage' < 990 => pc' = "done"
                /\ usage' >= 995 /\ idx < Len(results) => pc' = "delete"
                /\ pc' \in {"done", "delete"}
                /\ fs' = fs /\ idx' = idx /\ stats' = stats]_vars
    /\ [](pc = "done" => ~ENABLED Next)

\* the loop stopped at a usage between 99 and 99.5 % with an entry left over
C5_Witness ==
    /\ pc = "done"
    /\ usage >= 990 /\ usage < 995
    /\ idx > 0 /\ idx < Len(results)
    /\ fs[results[Len(results)].header_path].present

\* C6: a start-up usage below 90 % ends the run at once: no worker exists,
\* nothing was scanned or counted, the tree is as it was, and no step follows
C6_NoWorkBelowNinety ==
    /\ [][pc = "main" /\ usage' < 900 =>
             /\ pc' = "skipped"
             /\ fs' = fs
             /\ workers' = <<>> /\ channel' = <<>> /\ events' = {}
             /\ stats' = ZeroStats]_vars
    /\ [](pc = "skipped" => ~ENABLED Next)

\* a run skipped at 89 % with a populated tree
C6_Witness ==
    /\ pc = "skipped"
    /\ usage = 890
    /\ fs["a/v.header"].present /\ fs["b/y.header"].present
    /\ workers = <<>>

-----------------------------------------------------------------------------
(* The scanner's rules *)

\* C4, as stated: outside vary directories and outside desperate mode no
\* header whose vary directory has subdirectories is sent
C4_HeaderProtected ==
    \A e \in EventsOf("header") :
        ~e.in_vary /\ ~e.desperate /\ e.subdirs => ~e.sent

\* C4: outside vary directories and outside desperate mode a Vary-format
\* header whose vary directory has subdirectories is not sent, never reaches
\* the queue, and its file stays
C4_VaryHeaderProtected ==
    \A e \in EventsOf("header") :
        ~e.in_vary /\ ~e.desperate /\ e.format = "Vary" /\ e.subdirs =>
            /\ ~e.sent
            /\ \A i \in 1..Len(pushed) : pushed[i].header_path # e.node
            /\ \A i \in 1..Len(channel) : channel[i].header_path # e.node
            /\ \A d \in EventsOf("delete") : d.node # e.node
            /\ fs[e.node].present

\* a finished run that met such a Vary-format header and left it in place
C4_Witness ==
    /\ pc = "done"
    /\ \E e \in EventsOf("header") :
        /\ ~e.in_vary /\ ~e.desperate /\ e.format = "Vary" /\ e.subdirs
        /\ fs[e.node].present

\* C7, as stated: the orphan rule removes a data file exactly when its stem is
\* unknown, its header is missing, it is a regular file and both times are
\* more than 120 s old; a removal counts one deleted file
C7_OrphanRuleOlderThan ==
    \A e \in EventsOf("data") :
        /\ e.removed <=>
              /\ ~e.known /\ ~e.header /\ e.file
              /\ OlderThan(e.modified, 120) /\ OlderThan(e.accessed, 120)
        /\ e.removed => e.deleted = 1

\* C7: the orphan rule tries to remove a data file exactly when its stem is
\* unknown, its header is missing, it is a regular file and both times are at
\* least 120 s old; only a tried removal removes, a removal counts one
\* deleted file and a failed one counts one failure
C7_OrphanRule ==
    \A e \in EventsOf("data") :
        /\ e.tried <=>
              /\ ~e.known /\ ~e.header /\ e.file
              /\ AtLeast(e.modified, 120) /\ AtLeast(e.accessed, 120)
        /\ e.removed => e.tried /\ e.deleted = 1 /\ e.failed = 0
        /\ e.tried /\ ~e.removed => e.deleted = 0 /\ e.failed = 1
        /\ ~e.tried => e.deleted = 0 /\ e.failed = 0

\* an orphaned data file aged exactly 120 s was removed
C7_Witness ==
    \E e \in EventsOf("data") :
        /\ e.removed /\ e.deleted = 1
        /\ e.modified = Now - 120 * MicrosPerSec
        /\ ~fs[e.node].present

\* C8, as stated: an entry with a temporary file's name is removed exactly when
\* both times are more than 600 s old; a removal counts one deleted file
C8_TempRuleOlderThan ==
    \A e \in EventsOf("temp") \cup EventsOf("roottemp") :
        /\ e.removed <=> OlderThan(e.modified, 600) /\ OlderThan(e.accessed, 600)
        /\ e.removed => e.deleted = 1 /\ e.failed = 0

\* C8: in the root pass and in every scanned directory, the removal of an
\* entry with a temporary file's name is tried exactly when it is a regular
\* file and both times are at least 600 s old; only a tried removal removes,
\* a removal counts one deleted file; an entry still there after the scan
\* was kept by this rule; the root pass of a tree with one such file leaves
\* the Stats of that file alone
C8_TempRule ==
    /\ \A e \in EventsOf("temp") \cup EventsOf("roottemp") :
        /\ IsTempName(Tree[e.node].name)
        /\ e.seconds = 600
        /\ e.tried <=>
              e.file /\ AtLeast(e.modified, 600) /\ AtLeast(e.accessed, 600)
        /\ e.removed => e.tried /\ e.deleted = 1 /\ e.failed = 0
        /\ e.tried /\ ~e.removed => e.deleted = 0 /\ e.failed = 1
        /\ ~e.tried => e.deleted = 0 /\ e.failed = 0
    /\ pc = "spawn" =>
        stats = [deleted |-> Cardinality({e \in EventsOf("roottemp") : e.removed}),
                 deleted_folders |-> 0,
                 failed |-> Cardinality({e \in EventsOf("roottemp") : e.failed = 1})]
    /\ Scanned =>
        \A x \in Nodes :
            IsTempName(Tree[x].name) /\ Exists(fs, x) /\ Tree[x].parent = "a"
            /\ ~Unread(x) =>
                \E e \in EventsOf("temp") : e.node = x /\ ~e.removed

\* the root pass removed a temporary file aged 601 s: Stats {1, 0, 0}
C8_Witness ==
    /\ pc = "spawn"
    /\ stats = [deleted |-> 1, deleted_folders |-> 0, failed |-> 0]
    /\ \E e \in EventsOf("roottemp") :
        /\ e.removed
        /\ e.modified = Now - 601 * MicrosPerSec
        /\ e.accessed = Now - 601 * MicrosPerSec

\* C9, as stated: no step of the scanner removes a data file whose stem is in
\* the directory's known_headers
C9_KnownDataKept ==
    \A e \in EventsOf("data") \cup EventsOf("header") : e.known => ~e.removed

\* C9: the data-file rule neither removes nor tries to remove a data file
\* whose stem is in the directory's known_headers, whatever its age
C9_KnownDataKeptByOrphanRule ==
    \A e \in EventsOf("data") : e.known => ~e.tried /\ ~e.removed

\* an old data file passed over because its header had been seen
C9_Witness ==
    \E e \in EventsOf("data") :
        /\ e.known /\ e.file
        /\ AtLeast(e.modified, 121) /\ AtLeast(e.accessed, 121)
        /\ ~e.removed
        /\ pc = "drain" /\ fs[e.node].present

\* C10, as stated: every header read as Vary-format has the removal of its
\* data file tried
C10_VaryAlwaysTried ==
    \A e \in EventsOf("header") : e.format = "Vary" => e.tried

\* C10: the removal of a header's data file is tried exactly when the header
\* was read as Vary-format outside a vary directory, in desperate mode or not
C10_VaryTriedOutsideVary ==
    \A e \in EventsOf("header") :
        e.tried <=> (e.format = "Vary" /\ ~e.in_vary)

\* a Vary-format header met in desperate mode, its data file removed
C10_Witness ==
    \E e \in EventsOf("header") :
        /\ e.format = "Vary" /\ ~e.in_vary /\ e.desperate
        /\ e.tried /\ e.removed


-----------------------------------------------------------------------------
(* Folders, errors and counters *)

\* C11, as stated: a folder is removed after the recursion only if it is empty
\* and its times on disk are both more than 300 s old; with nlink > 2 no
\* removal is tried; a removal refused because the folder is not empty
\* counts nothing
C11_FolderRuleOlderThan ==
    \A e \in EventsOf("folder") :
        /\ e.removed =>
              e.empty /\ OlderThan(e.current, 300) /\ OlderThan(e.accessed, 300)
        /\ e.nlink > 2 => ~e.tried
        /\ e.tried /\ ~e.removed /\ e.failed = 0 => e.folders = 0

\* C11: the removal of a folder is tried after the recursion exactly when the
\* metadata used (read before the recursion for an other directory, after it
\* for a vary directory) shows a directory with nlink <= 2 whose times are
\* both at least 300 s old; only an empty folder is removed, and it counts one
\* deleted folder; with nlink > 2 no removal is tried; a removal refused
\* because the folder is not empty counts nothing
C11_FolderRule ==
    \A e \in EventsOf("folder") :
        /\ e.tried <=>
              /\ ~e.file /\ e.nlink <= 2
              /\ AtLeast(e.modified, 300) /\ AtLeast(e.accessed, 300)
        /\ EndsWith(Tree[e.node].name, CACHE_VDIR_SUFFIX) => e.modified = e.current
        /\ e.removed => e.tried /\ e.empty /\ e.folders = 1 /\ e.failed = 0
        /\ e.tried /\ ~e.removed /\ e.failed = 0 => ~e.empty /\ e.folders = 0
        /\ e.tried /\ ~e.removed => e.folders = 0
        /\ ~e.tried => e.folders = 0 /\ e.failed = 0 /\ ~e.removed

\* a folder aged exactly 300 s was removed after the scan had emptied it,
\* its time of modification on disk being that of the scan
C11_Witness ==
    \E e \in EventsOf("folder") :
        /\ e.removed
        /\ e.modified = Now - 300 * MicrosPerSec
        /\ e.current = Later
        /\ ~fs[e.node].present


-----------------------------------------------------------------------------
(* The comparator on its own: a vector of three entries, put in order by
   comparing neighbours *)

\* the CacheFileInfo values the unit specification compares: every key of
\* the order decides for some pair
OrdItems ==
    [header_path : {"a/v.header", "b/y.header"}, format : {"Disk"},
     expiry : {1 * MicrosPerSec, 3 * MicrosPerSec},
     modified : {1 * MicrosPerSec, 2 * MicrosPerSec},
     accessed : {1 * MicrosPerSec, 3 * MicrosPerSec}]

OrdInit ==
    /\ results \in [1..3 -> OrdItems]
    /\ limit = MAX_DELETE_COUNT
    /\ heap = <<>>
    /\ pushed = <<>>
    /\ qstate = "consumed"
    /\ fs = [x \in Nodes |-> Absent]
    /\ faults = 0
    /\ pc = "ord"
    /\ jobs = 1
    /\ stats = ZeroStats
    /\ usage = 0
    /\ idx = 0
    /\ channel = <<>>
    /\ workers = <<>>
    /\ events = {}

\* a.cmp(b) is Greater for two neighbours: they change places
OrdSwap ==
    /\ pc = "ord"
    /\ idx < MaxSwaps
    /\ \E i \in 1..2 :
        /\ Cmp(results[i], results[i + 1]) > 0
        /\ results' = Swap(results, i, i + 1)
    /\ idx' = idx + 1
    /\ UNCHANGED <<heap, limit, pushed, qstate, fs, faults, pc, jobs, stats, usage,
                   channel, workers, events>>

OrdNext == OrdSwap

SpecOrd == OrdInit /\ [][OrdNext]_vars

\* the keys of the order, in their rank
OrdKey(a) ==
    <<IF a.expiry >= a.modified THEN a.expiry ELSE a.modified,
      IF a.accessed >= a.modified THEN a.accessed ELSE a.modified,
      a.modified>>

\* the comparison of two entries by their keys, the earliest difference
\* deciding, then by their paths
Lexicographic(a, b) ==
    LET differ == {i \in 1..3 : OrdKey(a)[i] # OrdKey(b)[i]}
    IN  IF differ = {} THEN CmpPath(a.header_path, b.header_path)
        ELSE LET i == CHOOSE i \in differ : \A j \in differ : i <= j
             IN  IF OrdKey(a)[i] < OrdKey(b)[i] THEN -1 ELSE 1

-----------------------------------------------------------------------------
(* The scan phase ends *)

\* C13: under a fair scheduler the scan phase ends: a worker waiting to send
\* into a full channel gets to send, and the receive loop is left, the queue
\* sorted, once every worker has finished
C13_ScanTerminates ==
    /\ (pc = "drain") ~> Scanned
    /\ \A w \in 1..MaxJobs :
        (w \in DOMAIN workers /\ workers[w].pending # <<>>)
            ~> (w \in DOMAIN workers /\ workers[w].pending = <<>>)

\* two workers, both waiting to send into the full channel
C13_Witness ==
    /\ pc = "drain"
    /\ Len(channel) = ChannelCap
    /\ DOMAIN workers = {1, 2}
    /\ workers[1].pending # <<>>
    /\ workers[2].pending # <<>>


\* C25: the deletion loop ends; and a loop whose last look at the usage saw
\* 99.5 % or more (so that no look broke it off) has tried to remove every
\* queued entry, each in its turn
C25_DeletionLoopEnds ==
    /\ (pc \in {"delete", "check"}) ~> (pc = "done")
    /\ [](pc = "done" /\ usage >= 995 => idx = Len(results))
    /\ [](pc \in {"delete", "check", "done"} =>
            /\ idx <= Len(results)
            /\ \A i \in 1..idx :
                  \E e \in EventsOf("delete") :
                      e.order = i /\ e.node = results[i].header_path /\ e.tried)

\* a loop over three queued entries, two chunks, that saw 99.5 % or more at
\* both looks and tried all three
C25_Witness ==
    /\ pc = "done"
    /\ usage >= 995
    /\ Len(results) = 3 /\ idx = 3
    /\ Len(results) > DeleteChunk
    /\ Cardinality(EventsOf("delete")) = 3

-----------------------------------------------------------------------------
(* Errors *)

\* a file the finished scan left in place has its step in the history
Handled(y) == \E e \in events : e.node = y /\ e.kind \in {"temp", "header", "data"}

\* C14: a header entry from which no CacheFileInfo can be built counts one
\* failure and nothing else, is never sent or queued, has no file removed for
\* it, and the other entries of its directory are still handled
C14_BrokenHeaderSkipped ==
    \A e \in EventsOf("header") :
        e.format = "Err" =>
            /\ e.failed = 1 /\ e.deleted = 0 /\ e.folders = 0
            /\ ~e.sent /\ ~e.tried /\ ~e.removed
            /\ \A i \in 1..Len(pushed) : pushed[i].header_path # e.node
            /\ \A i \in 1..Len(channel) : channel[i].header_path # e.node
            /\ \A w \in DOMAIN workers :
                workers[w].pending # <<>> => workers[w].pending[1].header_path # e.node
            /\ \A d \in EventsOf("delete") : d.node # e.node
            /\ fs[e.node].present
            /\ Scanned =>
                \A y \in Nodes :
                    Tree[y].parent = Tree[e.node].parent /\ Exists(fs, y) /\ ~Tree[y].dir
                        => Handled(y)

\* a finished run that met a header with an unknown format tag beside an old
\* data file, and left both
C14_Witness ==
    /\ pc = "done"
    /\ \E e \in EventsOf("header") :
        /\ e.format = "Err" /\ e.failed = 1
        /\ fs[e.node].tag = 65536
        /\ Exists(fs, "a/v.data")
        /\ \E d \in EventsOf("data") : d.node = "a/v.data" /\ AtLeast(d.modified, 121)

\* the removals of step e that failed with an error other than ENOTEMPTY, and
\* the directory it could not read
Failures(e) ==
    (IF e.tried /\ e.err THEN 1 ELSE 0)
    + (IF e.data = "failed" THEN 1 ELSE 0)
    + (IF e.kind = "readdir" THEN 1 ELSE 0)

\* the same without the removals of data files beside a header: the one the
\* vary rule tries during the scan and the one the deletion phase tries first
CountedFailures(e) ==
    (IF e.tried /\ e.err /\ e.kind # "header" THEN 1 ELSE 0)
    + (IF e.kind = "readdir" THEN 1 ELSE 0)

\* no failure ends the run: a run that cannot step is finished, every worker
\* ends, every entry of every directory that was read has its step, and the
\* deletion phase processes what was queued
C15_RunGoesOn ==
    /\ ~ENABLED Next => pc \in {"done", "skipped"}
    /\ Scanned =>
        /\ \A w \in DOMAIN workers : workers[w].state = "done"
        /\ \A y \in Nodes :
              Exists(fs, y) /\ Tree[y].parent # Root /\ ~Unread(y) => Visited(y)
    /\ pc = "done" /\ results # <<>> => idx >= 1

DataOf(x) == DataPath([header_path |-> x])

\* header x was scanned in desperate mode
MetDesperate(x) == \E e \in EventsOf("header") : e.node = x /\ e.desperate

\* in desperate mode every header that was read is sent, a Vary-format header
\* whose vary directory has subdirectories included
C20_DesperateSendsAll ==
    \A e \in EventsOf("header") : e.desperate /\ e.format # "Err" => e.sent

\* C20 as stated: in desperate mode every header read is sent, and once the
\* deletion phase has processed it the header and its data file are gone
C20_DesperateBothGone ==
    /\ C20_DesperateSendsAll
    /\ \A d \in EventsOf("delete") :
        MetDesperate(d.node) => ~Exists(fs, d.node) /\ ~Exists(fs, DataOf(d.node))

\* C20: in desperate mode every header read is sent; once the deletion phase
\* has processed it the header is gone unless its removal failed, and its data
\* file is gone unless the removal of the data file failed
C20_DesperateGoneUnlessFailed ==
    /\ C20_DesperateSendsAll
    /\ \A d \in EventsOf("delete") :
        MetDesperate(d.node) =>
            /\ Exists(fs, d.node) <=> d.err
            /\ Exists(fs, DataOf(d.node)) <=> (d.file /\ d.data = "failed")

\* a finished run that met the Vary-format header a/v.header in desperate mode
\* while its vary directory had a subdirectory, sent it and deleted it; the
\* data file is gone as well and the vary directory is still there
C20_Witness ==
    /\ pc = "done"
    /\ \E e \in EventsOf("header") :
        /\ e.node = "a/v.header" /\ e.desperate /\ ~e.in_vary
        /\ e.format = "Vary" /\ e.subdirs /\ e.sent /\ e.removed
    /\ \E d \in EventsOf("delete") : d.node = "a/v.header" /\ d.removed
    /\ ~Exists(fs, "a/v.header") /\ ~Exists(fs, "a/v.data")
    /\ Exists(fs, "a/v.header.vary/s")

\* C21 as stated: a worker uses one desperate value for every directory of
\* its chunk
C21_OneModePerWorker ==
    \A b1, b2 \in EventsOf("begin") : b1.order = b2.order => b1.desperate = b2.desperate

\* C21: the usage is evaluated once for each directory of a chunk, desperate
\* is usage > 105 of that evaluation, and every entry below that directory is
\* handled with that value
C21_OneModePerFolder ==
    /\ \A u \in UsageValues : Desperate(u) <=> u > 1050
    /\ \A b1, b2 \in EventsOf("begin") : b1.node = b2.node => b1 = b2
    /\ \A b \in EventsOf("begin") :
        /\ Tree[b.node].parent = Root
        /\ b.order \in DOMAIN workers
        /\ \A e \in EventsOf("header") \cup EventsOf("temp") \cup EventsOf("data") :
              Under(e.node, b.node) => e.desperate = b.desperate
    /\ \A w \in DOMAIN workers :
        workers[w].stack # <<>> =>
            \E b \in EventsOf("begin") :
                /\ b.order = w /\ b.node = workers[w].stack[1].dir
                /\ b.desperate = workers[w].desperate

\* a finished run in which one worker scanned folder a in desperate mode and
\* folder b, of the same chunk, in normal mode
C21_Witness ==
    /\ pc = "done"
    /\ Len(workers) = 1
    /\ \E b1, b2 \in EventsOf("begin") :
        /\ b1.order = 1 /\ b2.order = 1
        /\ b1.node = "a" /\ b1.desperate
        /\ b2.node = "b" /\ ~b2.desperate
    /\ \E e \in EventsOf("header") : e.node = "a/v.header" /\ e.desperate
    /\ \E e \in EventsOf("header") : e.node = "b/y.header" /\ ~e.desperate

\* the run is over, folder a was scanned in normal mode and no system call
\* failed
ScenarioDone ==
    /\ pc = "done"
    /\ \E b \in EventsOf("begin") : b.node = "a" /\ ~b.desperate
    /\ \A e \in events : ~e.err /\ e.failed = 0

\* the scan tried to remove the variant folder s: it was empty and both its
\* times were at least 300 s old
VariantRemoved ==
    \E e \in EventsOf("folder") : e.node = "a/v.header.vary/s" /\ e.tried

-----------------------------------------------------------------------------
(* Two runs *)

\* a tree on which no rule finds anything to remove: no header with a format
\* tag that can be read, no temporary file and no orphaned data file whose
\* times are both old enough, no empty directory below the top-level folders
\* whose times are both at least 300 s old
Clean(fsv) ==
    \A x \in Nodes :
        Exists(fsv, x) =>
            LET name == Tree[x].name
                aged(n) == AtLeast(fsv[x].mtime, n) /\ AtLeast(fsv[x].atime, n)
            IN  /\ IsTempName(name) /\ ~Tree[x].dir => ~aged(600)
                /\ EndsWith(name, CACHE_HEADER_SUFFIX) /\ ~Tree[x].dir =>
                      fsv[x].tag \notin {5, 6}
                /\ EndsWith(name, CACHE_DATA_SUFFIX) /\ ~Tree[x].dir
                   /\ ~Exists(fsv, Lookup(Tree[x].parent,
                                          StripSuffix(name, CACHE_DATA_SUFFIX)[1]
                                              \o CACHE_HEADER_SUFFIX)) => ~aged(120)
                /\ Tree[x].dir /\ Tree[x].parent # Root /\ Children(fsv, x) = {} =>
                      ~aged(300)

\* seconds that may pass between the end of one run and the start of the next
Pauses == {0, 1}

\* the tree as the next run sees it: its `now` lies `pause` seconds later, so
\* every time lies that much further back
Aging(fsv, pause) ==
    [x \in Nodes |->
        IF fsv[x].present
        THEN [fsv[x] EXCEPT !.mtime = @ - pause * MicrosPerSec,
                            !.atime = @ - pause * MicrosPerSec,
                            !.expiry = @ - pause * MicrosPerSec]
        ELSE fsv[x]]

\* the history's record of a second start of the program on tree fsv: the
\* pause, whether the tree is clean, and what the first run counted
RerunEvent(fsv, pause, before) ==
    [NoEvent EXCEPT !.kind = "rerun", !.seconds = pause, !.empty = Clean(fsv),
                    !.deleted = before.deleted,
                    !.folders = before.deleted_folders, !.failed = before.failed]

\* main.rs 580-613, once more: after a run that went through the pipeline the
\* program is started a second time on the tree that run left, with a queue,
\* Stats and threads of its own
Rerun ==
    /\ pc = "done"
    /\ \A e \in events : e.kind # "rerun"
    /\ \E pause \in Pauses :
        /\ fs' = Aging(fs, pause)
        /\ events' = {RerunEvent(Aging(fs, pause), pause, stats)}
    /\ pc' = "main"
    /\ heap' = <<>>
    /\ pushed' = <<>>
    /\ results' = <<>>
    /\ qstate' = "live"
    /\ stats' = ZeroStats
    /\ usage' = 0
    /\ idx' = 0
    /\ channel' = <<>>
    /\ workers' = <<>>
    /\ UNCHANGED <<limit, faults, jobs>>

NextTwice == Next \/ Rerun

\* Trees of two folders: `a` with an entry whose header is readable or not,
\* its data file, at times a temporary file one second short of 600 s, and a
\* vary directory with one more entry; `b` with one entry; cleaned twice by
\* one job
InitTwice ==
    /\ Idle
    /\ jobs = 1
    /\ faults = 0
    /\ \E tag \in {6, 65536}, t \in {<<>>, <<Aged(599, 599)>>} :
        fs = TreeOf(
              Maybe("a/aptmpGHIJKL", t)
           @@ [x \in {"a", "b", "a/v.header", "a/v.data", "a/v.header.vary",
                      "a/v.header.vary/s", "a/v.header.vary/s/w.header",
                      "a/v.header.vary/s/w.data", "b/y.header", "b/y.data"} |->
                  CASE x = "a/v.header" -> HeaderFile(tag, 100, 400, 400)
                    [] x = "a/v.header.vary/s/w.header" -> HeaderFile(6, -500, 400, 300)
                    [] x = "b/y.header" -> HeaderFile(6, -400, 400, 400)
                    [] OTHER -> Aged(400, 400)])

SpecTwice == InitTwice /\ [][NextTwice]_vars

\* this is the second run
SecondRun == EventsOf("rerun") # {}

\* some step of this run removed a file or a folder
Removals ==
    {e \in events : e.kind # "rerun" /\ (e.removed \/ e.data = "removed")}

StartedClean == \E e \in EventsOf("rerun") : e.empty

-----------------------------------------------------------------------------
(* The partition of the root entries on its own: the vector of entries, by
   their positions after the shuffle, handed out chunk by chunk *)

ChunkInit ==
    /\ \E len \in 0..MaxEntries : results = [i \in 1..len |-> i]
    /\ jobs \in 1..MaxChunkJobs
    /\ workers = <<>>
    /\ pc = "chunk"
    /\ idx = 0
    /\ heap = <<>>
    /\ limit = MAX_DELETE_COUNT
    /\ pushed = <<>>
    /\ qstate = "consumed"
    /\ fs = [x \in Nodes |-> Absent]
    /\ faults = 0
    /\ stats = ZeroStats
    /\ usage = 0
    /\ channel = <<>>
    /\ events = {}

\* lib.rs 183 and 197-200: the next chunk of folders.chunks(chunk_size) gets
\* its thread
ChunkSpawn ==
    /\ pc = "chunk"
    /\ idx < Len(results)
    /\ LET chunks == Chunks(results, ChunkSize(Len(results), jobs))
           chunk == chunks[Len(workers) + 1]
       IN  /\ workers' = Append(workers,
                                [state |-> "run", chunk |-> chunk, stack |-> <<>>,
                                 pending |-> <<>>, desperate |-> FALSE])
           /\ idx' = idx + Len(chunk)
    /\ UNCHANGED <<qvars, fs, faults, pc, jobs, stats, usage, channel, events>>

ChunkNext == ChunkSpawn

SpecChunk == ChunkInit /\ [][ChunkNext]_vars

\* the chunks handed out so far are consecutive, all of size s but possibly
\* the last, which is not longer, and none is empty
ChunksOfSize(s) ==
    /\ \A w \in DOMAIN workers :
        /\ Len(workers[w].chunk) >= 1
        /\ Len(workers[w].chunk) <= s
        /\ workers[w].chunk[1] = (w - 1) * s + 1
        /\ w < Len(workers) \/ idx < Len(results) => Len(workers[w].chunk) = s
    /\ idx <= Len(results)
    /\ workers # <<>> => idx = workers[Len(workers)].chunk[Len(workers[Len(workers)].chunk)]

\* C22 as stated: the chunk size is ceil(len / jobs) + 1, the number s with
\* (s - 2) * jobs < len <= (s - 1) * jobs
C22_ChunkSizeCeil ==
    pc = "chunk" =>
        \E s \in 1..(Len(results) + 1) :
            /\ (s - 2) * jobs < Len(results) /\ Len(results) <= (s - 1) * jobs
            /\ ChunksOfSize(s)

\* C22: the chunk size is floor(len / jobs) + 1, the number s with
\* (s - 1) * jobs <= len < s * jobs
C22_ChunkSizeFloor ==
    pc = "chunk" =>
        \E s \in 1..(Len(results) + 1) :
            /\ (s - 1) * jobs <= Len(results) /\ Len(results) < s * jobs
            /\ ChunksOfSize(s)

\* three entries and two jobs: a chunk of two and a chunk of one
C22_Witness ==
    /\ pc = "chunk"
    /\ Len(results) = 3 /\ jobs = 2
    /\ idx = 3
    /\ Len(workers) = 2
    /\ workers[1].chunk = <<1, 2>> /\ workers[2].chunk = <<3>>

-----------------------------------------------------------------------------
(* Stats on its own: a value counted into, and sequences summed *)

\* the Stats values the unit specifications start from and sum
StatsValues == [deleted : 0..1, deleted_folders : 0..1, failed : 0..1]

\* the results count and count_folder are called with
CountArgs == {"true", "false", "err"}

CountInit ==
    /\ stats \in StatsValues
    /\ pc = "count"
    /\ idx = 0
    /\ events = {}
    /\ heap = <<>>
    /\ limit = MAX_DELETE_COUNT
    /\ pushed = <<>>
    /\ results = <<>>
    /\ qstate = "consumed"
    /\ fs = [x \in Nodes |-> Absent]
    /\ faults = 0
    /\ jobs = 1
    /\ usage = 0
    /\ channel = <<>>
    /\ workers = <<>>

\* the history's record of call number n of method `kind` with argument r
CallEvent(kind, r, n, before, after) ==
    Counted([NoEvent EXCEPT !.kind = kind, !.arg = r, !.order = n], before, after)

\* stats.count(r)
CountCall ==
    /\ pc = "count"
    /\ idx < MaxCalls
    /\ \E r \in CountArgs :
        /\ stats' = Count(stats, r)
        /\ events' = events \cup {CallEvent("count", r, idx + 1, stats, Count(stats, r))}
    /\ idx' = idx + 1
    /\ UNCHANGED <<qvars, fs, faults, pc, jobs, usage, channel, workers>>

\* stats.count_folder(r)
CountFolderCall ==
    /\ pc = "count"
    /\ idx < MaxCalls
    /\ \E r \in CountArgs :
        /\ stats' = CountFolder(stats, r)
        /\ events' = events \cup
                {CallEvent("count_folder", r, idx + 1, stats, CountFolder(stats, r))}
    /\ idx' = idx + 1
    /\ UNCHANGED <<qvars, fs, faults, pc, jobs, usage, channel, workers>>

CountNext == CountCall \/ CountFolderCall

SpecCount == CountInit /\ [][CountNext]_vars

\* C17: count changes exactly one counter or none: Ok(true) adds 1 to deleted,
\* Ok(false) changes nothing, Err adds 1 to failed; count_folder does the same
\* with deleted_folders in place of deleted; no other counter changes
C17_CountOneCounter ==
    /\ \A e \in EventsOf("count") :
        /\ e.deleted = (IF e.arg = "true" THEN 1 ELSE 0)
        /\ e.failed = (IF e.arg = "err" THEN 1 ELSE 0)
        /\ e.folders = 0
    /\ \A e \in EventsOf("count_folder") :
        /\ e.folders = (IF e.arg = "true" THEN 1 ELSE 0)
        /\ e.failed = (IF e.arg = "err" THEN 1 ELSE 0)
        /\ e.deleted = 0

\* a value that was counted into with Ok(true) and Err and into whose folder
\* counter Ok(true) was counted, each leaving the other counters alone
C17_Witness ==
    /\ pc = "count"
    /\ idx = MaxCalls
    /\ \E e \in EventsOf("count") : e.arg = "true" /\ e.deleted = 1
    /\ \E e \in EventsOf("count") : e.arg = "err" /\ e.failed = 1
    /\ \E e \in EventsOf("count_folder") : e.arg = "true" /\ e.folders = 1
    /\ stats.deleted >= 1 /\ stats.deleted_folders >= 1 /\ stats.failed >= 1

\* the items of the sequences summed: Ok(stats), written <<stats>>, and Err,
\* written <<>>
SumItems == {<<>>} \cup {<<st>> : st \in StatsValues}

\* the sequences of at most n items
SeqsUpTo(S, n) == UNION {[1..k -> S] : k \in 0..n}

\* a sequence of Stats for Sum<Self>, or of Result<Stats, E> for
\* Sum<Result<Self, E>>, and the accumulator at its default
SumInit ==
    /\ channel \in SeqsUpTo(SumItems, MaxSeq)
    /\ pc \in {"sum", "sum_result"}
    /\ pc = "sum" => \A i \in DOMAIN channel : channel[i] # <<>>
    /\ stats = ZeroStats
    /\ idx = 0
    /\ events = {}
    /\ heap = <<>>
    /\ limit = MAX_DELETE_COUNT
    /\ pushed = <<>>
    /\ results = <<>>
    /\ qstate = "consumed"
    /\ fs = [x \in Nodes |-> Absent]
    /\ faults = 0
    /\ jobs = 1
    /\ usage = 0
    /\ workers = <<>>

\* stats.rs 68-74: one iteration of Sum<Self>::sum
SumStep ==
    /\ pc = "sum"
    /\ idx < Len(channel)
    /\ stats' = Merge(stats, channel[idx + 1][1])
    /\ idx' = idx + 1
    /\ UNCHANGED <<qvars, fs, faults, pc, jobs, usage, channel, workers, events>>

\* stats.rs 78-84: one iteration of Sum<Result<Self, E>>::sum
SumResultStep ==
    /\ pc = "sum_result"
    /\ idx < Len(channel)
    /\ stats' = MergeResult(stats, channel[idx + 1])
    /\ idx' = idx + 1
    /\ UNCHANGED <<qvars, fs, faults, pc, jobs, usage, channel, workers, events>>

SumNext == SumStep \/ SumResultStep

SpecSum == SumInit /\ [][SumNext]_vars

\* the number of i in 1..n for which counter c of item i, taken as 0 for an
\* Err, is 1, plus the number of Err items when errs is set
Total(c, n, errs) ==
    Cardinality({i \in 1..n : channel[i] # <<>> /\ channel[i][1][c] = 1})
    + (IF errs THEN Cardinality({i \in 1..n : channel[i] = <<>>}) ELSE 0)

\* C18: after every item the accumulator of a sum of Stats is the componentwise
\* sum of the items so far; in a sum of results each Ok is added componentwise
\* and each Err adds 1 to failed and nothing to deleted or deleted_folders
C18_SumIsFold ==
    pc \in {"sum", "sum_result"} =>
        /\ stats.deleted = Total("deleted", idx, FALSE)
        /\ stats.deleted_folders = Total("deleted_folders", idx, FALSE)
        /\ stats.failed = Total("failed", idx, pc = "sum_result")

\* a finished sum of three results, an Err between two Ok values that each
\* count a deletion and a failure
C18_Witness ==
    /\ pc = "sum_result"
    /\ idx = 3 /\ Len(channel) = 3
    /\ channel[2] = <<>>
    /\ channel[1] # <<>> /\ channel[1][1].deleted = 1 /\ channel[1][1].failed = 1
    /\ channel[3] # <<>> /\ channel[3][1].deleted = 1 /\ channel[3][1].failed = 1
    /\ stats = [deleted |-> 2, deleted_folders |-> channel[1][1].deleted_folders
                                                   + channel[3][1].deleted_folders,
                failed |-> 3]

-----------------------------------------------------------------------------
(* Aggregation *)

\* what the steps in S counted, added componentwise
RECURSIVE Part(_)
Part(S) ==
    IF S = {} THEN ZeroStats
    ELSE LET e == CHOOSE x \in S : TRUE
             rest == Part(S \ {e})
         IN  [deleted |-> rest.deleted + e.deleted,
              deleted_folders |-> rest.deleted_folders + e.folders,
              failed |-> rest.failed + e.failed]

\* the counts of the root temp-file pass, of the scan of top-level entry f,
\* and of the deletion phase
RootPart == Part(EventsOf("roottemp"))
FolderPart(f) ==
    Part({e \in events : /\ e.kind \notin {"roottemp", "delete"}
                         /\ (e.node = f \/ Under(e.node, f))})
DeletePart == Part(EventsOf("delete"))

\* the top-level entries whose result a worker has merged
MergedFolders ==
    {f \in Nodes : /\ Tree[f].parent = Root
                   /\ workers # <<>>
                   /\ \E e \in events :
                         e.kind \notin {"roottemp", "delete"}
                         /\ (e.node = f \/ Under(e.node, f))
                   /\ \A w \in DOMAIN workers :
                         \A i \in 1..Len(workers[w].chunk) : workers[w].chunk[i] # f}

\* the componentwise sum of the Stats in S, one top-level entry after another
RECURSIVE FolderSum(_)
FolderSum(S) ==
    IF S = {} THEN ZeroStats
    ELSE LET f == CHOOSE x \in S : TRUE
         IN  [deleted |-> FolderSum(S \ {f}).deleted + FolderPart(f).deleted,
              deleted_folders |-> FolderSum(S \ {f}).deleted_folders
                                  + FolderPart(f).deleted_folders,
              failed |-> FolderSum(S \ {f}).failed + FolderPart(f).failed]

\* C16: in every interleaving the shared Stats is the componentwise sum of the
\* root temp-file pass, the results of the folders merged so far and the
\* deletion-phase counts; at the end that is every folder's result
C16_StatsIsSum ==
    /\ pc \in {"spawn", "drain", "delete", "check", "done"} =>
        /\ stats.deleted
             = RootPart.deleted + FolderSum(MergedFolders).deleted + DeletePart.deleted
        /\ stats.deleted_folders = FolderSum(MergedFolders).deleted_folders
        /\ stats.failed
             = RootPart.failed + FolderSum(MergedFolders).failed + DeletePart.failed
        /\ RootPart.deleted_folders = 0 /\ DeletePart.deleted_folders = 0
    /\ Scanned =>
        \A e \in events :
            e.kind \notin {"roottemp", "delete"} =>
                \E f \in MergedFolders : e.node = f \/ Under(e.node, f)

\* a finished run of two workers in which the root pass, the scans of both
\* folders and the deletion phase each counted something
C16_Witness ==
    /\ pc = "done"
    /\ Len(workers) = 2
    /\ RootPart # ZeroStats
    /\ FolderPart("a") # ZeroStats
    /\ FolderPart("b") # ZeroStats
    /\ DeletePart # ZeroStats
    /\ stats.deleted >= 2 /\ stats.deleted_folders = 1 /\ stats.failed >= 1

-----------------------------------------------------------------------------
(* The channel on its own: two workers send the entries they found, in any
   order, and the main thread pushes what arrives into the queue *)

ArrivePaths == {"a/v.header", "a/v.header.vary/s/w.header", "b/y.header"}

ArriveWorker == [pending : SUBSET
                    [header_path : ArrivePaths, format : {"Disk"},
                     expiry : {1 * MicrosPerSec},
                     modified : {1 * MicrosPerSec, 2 * MicrosPerSec},
                     accessed : {1 * MicrosPerSec}]]

\* every entry is found by one worker, once: workers scan disjoint folders
ArriveInit ==
    /\ limit \in 0..MaxLimit
    /\ workers \in [1..2 -> ArriveWorker]
    /\ \A e, f \in workers[1].pending \cup workers[2].pending :
           e.header_path = f.header_path => e = f
    /\ workers[1].pending \cap workers[2].pending = {}
    /\ heap = <<>>
    /\ pushed = <<>>
    /\ results = <<>>
    /\ qstate = "live"
    /\ fs = [x \in Nodes |-> Absent]
    /\ faults = 0
    /\ pc = "drain"
    /\ jobs = 2
    /\ stats = ZeroStats
    /\ usage = 0
    /\ idx = 0
    /\ channel = <<>>
    /\ events = {}

\* lib.rs 315: sender.send(fileinfo), blocking while the channel is full
ArriveSend(w) ==
    /\ pc = "drain"
    /\ Len(channel) < ChannelCap
    /\ \E e \in workers[w].pending :
        /\ channel' = Append(channel, e)
        /\ workers' = [workers EXCEPT ![w].pending = @ \ {e}]
    /\ UNCHANGED <<qvars, fs, faults, pc, jobs, stats, usage, idx, events>>

\* lib.rs 209-211: one iteration of the receive loop; idx counts the entries
\* that arrived after a greater one
ArriveRecv ==
    /\ pc = "drain"
    /\ channel # <<>>
    /\ heap' = Push(heap, limit, Head(channel))
    /\ pushed' = InsertAscending(Head(channel), pushed)
    /\ idx' = IF pushed # <<>> /\ Cmp(Head(channel), pushed[Len(pushed)]) < 0
              THEN idx + 1 ELSE idx
    /\ channel' = Tail(channel)
    /\ UNCHANGED <<limit, results, qstate, fs, faults, pc, jobs, stats, usage,
                   workers, events>>

\* lib.rs 209-219: the senders are dropped, the channel is empty, the queue is
\* sorted
ArriveEnd ==
    /\ pc = "drain"
    /\ channel = <<>>
    /\ \A w \in DOMAIN workers : workers[w].pending = {}
    /\ results' = IntoSortedVec(heap)
    /\ heap' = <<>>
    /\ qstate' = "consumed"
    /\ pc' = "delete"
    /\ UNCHANGED <<limit, pushed, fs, faults, jobs, stats, usage, idx, channel,
                   workers, events>>

ArriveNext ==
    \/ \E w \in DOMAIN workers : ArriveSend(w)
    \/ ArriveRecv
    \/ ArriveEnd

SpecArrive == ArriveInit /\ [][ArriveNext]_vars

\* the heap after the items of s were pushed one after the other
RECURSIVE PushAll(_, _, _)
PushAll(h, lim, s) ==
    IF s = <<>> THEN h ELSE PushAll(Push(h, lim, Head(s)), lim, Tail(s))

\* C26: the sorted vector handed to the deletion phase depends on the set of
\* entries sent alone: whatever the order of arrival, it is the vector the
\* queue yields when the same entries arrive in ascending order, also when
\* more entries are sent than the queue keeps
C26_ArrivalOrderFree ==
    qstate = "consumed" =>
        results = IntoSortedVec(PushAll(<<>>, limit, pushed))

\* more entries than the queue keeps were sent, and some arrived after a
\* greater one
C26_Witness ==
    /\ qstate = "consumed"
    /\ limit >= 1
    /\ Len(pushed) > limit
    /\ Len(results) = limit
    /\ idx >= 1

-----------------------------------------------------------------------------
(* SizeSpec on its own: value() of one SizeSpec for one total *)

Percentage(n) == [kind |-> "Percentage", n |-> n]
Absolute(n) == [kind |-> "Absolute", n |-> n]

\* SizeSpec::value
SizeSpecValue(spec, total) ==
    IF spec.kind = "Percentage"
    THEN F64AsInt(F64MulNat(F64Div(spec.n, 100), total), U64_MAX)
    ELSE spec.n

\* the SizeSpecs of the unit specification: whole percentages and sizes
SizeSpecs == {Percentage(n) : n \in 0..U64_MAX} \cup {Absolute(n) : n \in 0..U64_MAX}

\* jobs holds the SizeSpec, idx the total, usage the value returned
ValueInit ==
    /\ jobs \in SizeSpecs
    /\ idx \in 0..U64_MAX
    /\ pc = "call"
    /\ usage = 0
    /\ heap = <<>>
    /\ limit = 0
    /\ pushed = <<>>
    /\ results = <<>>
    /\ qstate = "consumed"
    /\ fs = [x \in Nodes |-> Absent]
    /\ faults = 0
    /\ stats = ZeroStats
    /\ channel = <<>>
    /\ workers = <<>>
    /\ events = {}

ValueCall ==
    /\ pc = "call"
    /\ usage' = SizeSpecValue(jobs, idx)
    /\ pc' = "returned"
    /\ UNCHANGED <<qvars, fs, faults, jobs, stats, idx, channel, workers, events>>

ValueNext == ValueCall

SpecValue == ValueInit /\ [][ValueNext]_vars

\* C29: value(t) of Absolute(n) is n, and value(t) of Percentage(p) is
\* floor(p * t / 100).  The code computes the percentage in f64, p / 100.0
\* first: for 29 % of 100 it returns 28.
C29_ValueIsFloor ==
    pc = "returned" =>
        usage = IF jobs.kind = "Absolute" THEN jobs.n
                ELSE IF (jobs.n * idx) \div 100 > U64_MAX THEN U64_MAX
                ELSE (jobs.n * idx) \div 100

\* the part of C29 that the code keeps: Absolute(n) whatever the total, and
\* the percentages of the tests
C29_AbsoluteAndTested ==
    pc = "returned" =>
        /\ jobs.kind = "Absolute" => usage = jobs.n
        /\ (jobs = Percentage(10) /\ idx = 10) => usage = 1
        /\ (jobs = Percentage(10) /\ idx = 1) => usage = 0

\* value() of 29 % for a total of 100
C29_FailingInput == pc = "returned" /\ jobs = Percentage(29) /\ idx = 100 /\ usage = 28

-----------------------------------------------------------------------------
(* calculate_usage on its own: one statfs answer, one pair of limits *)

SatSub(a, b) == IF a >= b THEN a - b ELSE 0

\* u64 arithmetic without overflow checks
Wrap(x) == x % (U64_MAX + 1)

\* the greater of two f64, as calculate_usage picks it
F64Max(inode_usage, space_usage) ==
    IF F64Gt(inode_usage, space_usage) THEN inode_usage ELSE space_usage

\* a calculate_usage in unbounded integers
CalculateUsageUnbounded(st, minspace, mininodes) ==
    LET total_space == st.block_size * st.blocks
        used_space_target == SatSub(total_space, SizeSpecValue(minspace, total_space))
        used_space == SatSub(st.blocks, st.blocks_available) * st.block_size
        total_inodes == st.files
        used_inodes_target == SatSub(total_inodes, SizeSpecValue(mininodes, total_inodes))
        used_inodes == SatSub(total_inodes, st.files_free)
    IN  [res |-> "ok",
         value |-> F64Max(F64Div(used_inodes * 100, used_inodes_target + 1),
                          F64Div(used_space * 100, used_space_target + 1))]

\* calculate_usage, for the answer st of statfs(".").  An overflow of u64
\* panics in a build with overflow checks and wraps around in one without.
CalculateUsage(st, minspace, mininodes) ==
    LET total_space == Wrap(st.block_size * st.blocks)
        used_space_target == SatSub(total_space, SizeSpecValue(minspace, total_space))
        used_space == Wrap(SatSub(st.blocks, st.blocks_available) * st.block_size)
        total_inodes == st.files
        used_inodes_target == SatSub(total_inodes, SizeSpecValue(mininodes, total_inodes))
        used_inodes == SatSub(total_inodes, st.files_free)
        overflow == \/ st.block_size * st.blocks > U64_MAX
                    \/ SatSub(st.blocks, st.blocks_available) * st.block_size > U64_MAX
                    \/ used_inodes_target + 1 > U64_MAX
                    \/ used_space_target + 1 > U64_MAX
        inode_usage == F64Div(used_inodes * 100, Wrap(used_inodes_target + 1))
        space_usage == F64Div(used_space * 100, Wrap(used_space_target + 1))
    IN  IF overflow /\ st.overflow_checks
        THEN [res |-> "panic", value |-> F64NaN]
        ELSE [res |-> "ok", value |-> F64Max(inode_usage, space_usage)]

\* what statfs(".") may answer, and the build
StatfsAnswers ==
    [block_size : {1, 2}, blocks : {0, 1, 60, 64, U64_MAX},
     blocks_available : {0, 1, 60, U64_MAX},
     files : {0, 1, 100, U64_MAX}, files_free : {0, 1, 100, U64_MAX},
     overflow_checks : BOOLEAN]

\* the limits --min-free-space and --min-free-inodes may be given
MinFree == {Absolute(0), Absolute(1), Absolute(10), Percentage(10), Percentage(100)}

\* fs holds the answer of statfs, jobs the Config
UsageInit ==
    /\ fs \in StatfsAnswers
    /\ jobs \in [min_free_space : MinFree, min_free_inodes : MinFree]
    /\ pc = "call"
    /\ usage = F64Zero
    /\ heap = <<>>
    /\ limit = 0
    /\ pushed = <<>>
    /\ results = <<>>
    /\ qstate = "consumed"
    /\ faults = 0
    /\ stats = ZeroStats
    /\ idx = 0
    /\ channel = <<>>
    /\ workers = <<>>
    /\ events = {}

UsageCall ==
    /\ pc = "call"
    /\ LET o == CalculateUsage(fs, jobs.min_free_space, jobs.min_free_inodes)
       IN  /\ usage' = o.value
           /\ pc' = IF o.res = "panic" THEN "panicked" ELSE "returned"
    /\ UNCHANGED <<qvars, fs, faults, jobs, stats, idx, channel, workers, events>>

UsageNext == UsageCall

SpecUsage == UsageInit /\ [][UsageNext]_vars

\* the targets of an answer under a Config, in unbounded integers
SpaceTarget(st, cfg) ==
    SatSub(st.block_size * st.blocks,
           SizeSpecValue(cfg.min_free_space, st.block_size * st.blocks))

InodeTarget(st, cfg) == SatSub(st.files, SizeSpecValue(cfg.min_free_inodes, st.files))

\* no step of calculate_usage leaves u64
NoOverflow(st, cfg) ==
    /\ st.block_size * st.blocks <= U64_MAX
    /\ SpaceTarget(st, cfg) < U64_MAX
    /\ InodeTarget(st, cfg) < U64_MAX

\* answers that differ from st in the used space or the used inodes only, and
\* use no less of either
MoreUsed(st) ==
    {t \in StatfsAnswers :
        /\ t.block_size = st.block_size /\ t.blocks = st.blocks /\ t.files = st.files
        /\ t.overflow_checks = st.overflow_checks
        /\ SatSub(t.blocks, t.blocks_available) >= SatSub(st.blocks, st.blocks_available)
        /\ SatSub(t.files, t.files_free) >= SatSub(st.files, st.files_free)}

\* Configs that keep no less free of either, for the totals of st
MoreFree(st, cfg) ==
    {c \in [min_free_space : MinFree, min_free_inodes : MinFree] :
        /\ SizeSpecValue(c.min_free_space, Wrap(st.block_size * st.blocks))
             >= SizeSpecValue(cfg.min_free_space, Wrap(st.block_size * st.blocks))
        /\ SizeSpecValue(c.min_free_inodes, st.files)
             >= SizeSpecValue(cfg.min_free_inodes, st.files)}

\* the call returned the claimed maximum, a number, and no call with more
\* used or more to keep free returns less
AsClaimed(st, cfg) ==
    /\ pc = "returned"
    /\ usage.cls \in {"zero", "num"}
    /\ usage = CalculateUsageUnbounded(st, cfg.min_free_space, cfg.min_free_inodes).value
    /\ \A t \in MoreUsed(st) :
          LET o == CalculateUsage(t, cfg.min_free_space, cfg.min_free_inodes)
          IN  o.res = "ok" /\ F64Ge(o.value, usage)
    /\ \A c \in MoreFree(st, cfg) :
          LET o == CalculateUsage(st, c.min_free_space, c.min_free_inodes)
          IN  o.res = "ok" /\ F64Ge(o.value, usage)

\* C27: calculate_usage returns the greater of 100 * used_space /
\* (used_space_target + 1) and 100 * used_inodes / (used_inodes_target + 1),
\* the targets being total minus min_free.value(total), saturating; the result
\* is a number also when a target is 0, and does not fall when more is used
\* or more is to be kept free.  The code leaves u64 when a target is u64::MAX
\* or block_size * blocks is beyond it.
C27_UsageFormula == pc # "call" => AsClaimed(fs, jobs)

\* the same wherever no step of the computation leaves u64
C27_UsageFormulaInRange ==
    (pc # "call" /\ NoOverflow(fs, jobs)) =>
        /\ pc = "returned"
        /\ usage.cls \in {"zero", "num"}
        /\ usage = CalculateUsageUnbounded(fs, jobs.min_free_space, jobs.min_free_inodes).value
        /\ \A t \in MoreUsed(fs) :
              LET o == CalculateUsage(t, jobs.min_free_space, jobs.min_free_inodes)
              IN  o.res = "ok" /\ F64Ge(o.value, usage)
        /\ \A c \in MoreFree(fs, jobs) :
              NoOverflow(fs, c) =>
                  LET o == CalculateUsage(fs, c.min_free_space, c.min_free_inodes)
                  IN  o.res = "ok" /\ F64Ge(o.value, usage)

\* a file system of u64::MAX inodes, some of them used, none to be kept free,
\* in a build without overflow checks: the usage is infinite
C27_FailingInput ==
    /\ pc = "returned"
    /\ fs.files = U64_MAX /\ fs.files_free = 100
    /\ jobs.min_free_inodes = Absolute(0)
    /\ ~fs.overflow_checks
    /\ usage = F64Inf

\* a target of 0: the whole file system is to be kept free
C27_TargetZero ==
    /\ pc = "returned"
    /\ jobs.min_free_space = Percentage(100) /\ jobs.min_free_inodes = Percentage(100)
    /\ fs.blocks = 60 /\ fs.files = 100
    /\ SpaceTarget(fs, jobs) = 0 /\ InodeTarget(fs, jobs) = 0
    /\ usage.cls = "num"

-----------------------------------------------------------------------------
(* apache_cache::parse on its own: the bytes of one header file, on one
   platform *)

\* a sequence back to front
Reverse(b) == [i \in 1..Len(b) |-> b[Len(b) + 1 - i]]

\* the bytes of an integer in native order, most significant byte first
NeDigits(b, big_endian) == IF big_endian THEN b ELSE Reverse(b)

\* u32::from_ne_bytes, as its upper and lower 16 bits
U32FromNeBytes(b, big_endian) ==
    LET d == NeDigits(b, big_endian)
    IN  [hi |-> d[1] * 256 + d[2], lo |-> d[3] * 256 + d[4]]

\* a Format::try_from that looks at the lower 16 bits only
TryFromLowHalf(value) ==
    CASE value.lo = 5 -> <<"Vary">>
      [] value.lo = 6 -> <<"Disk">>
      [] OTHER -> <<>>

\* impl TryFrom<u32> for Format: <<Format>> for Ok, <<>> for Err(FormatError(value))
FormatTryFrom(value) ==
    CASE value.hi = 0 /\ value.lo = 5 -> <<"Vary">>
      [] value.hi = 0 /\ value.lo = 6 -> <<"Disk">>
      [] OTHER -> <<>>

\* the block parse reads behind the tag of a Disk header: c_int, two usize,
\* two times 8 bytes
DiskBlock(usize) == 4 + usize * 2 + 8 * 2

\* apache_cache::parse of the bytes f.  Ok carries the Header, its expiry as
\* the digits of the u64 of microseconds; Err carries the error's kind and,
\* for an unknown format, the tag
ParseFile(f, platform) ==
    IF Len(f) < 4
    THEN [ok |-> FALSE, kind |-> "UnexpectedEof", tag |-> <<>>, format |-> "", expiry |-> <<>>]
    ELSE LET value == U32FromNeBytes(SubSeq(f, 1, 4), platform.big_endian)
             format == FormatTryFrom(value)
             rest == SubSeq(f, 5, Len(f))
             need == IF format = <<"Disk">> THEN DiskBlock(platform.usize) ELSE 8
         IN  IF format = <<>>
             THEN [ok |-> FALSE, kind |-> "InvalidData", tag |-> <<value>>, format |-> "",
                   expiry |-> <<>>]
             ELSE IF Len(rest) < need
             THEN [ok |-> FALSE, kind |-> "UnexpectedEof", tag |-> <<>>, format |-> "",
                   expiry |-> <<>>]
             ELSE [ok |-> TRUE, kind |-> "", tag |-> <<>>, format |-> format[1],
                   expiry |-> NeDigits(SubSeq(rest, need - 7, need), platform.big_endian)]

\* format tags as they lie in a file: 5, 6, 0, 7, 65536, 65536 + 5,
\* 0xFFFFFFFF, in either byte order
TagBytes ==
    {<<5, 0, 0, 0>>, <<6, 0, 0, 0>>, <<0, 0, 0, 5>>, <<0, 0, 0, 6>>, <<0, 0, 0, 0>>,
     <<7, 0, 0, 0>>, <<0, 0, 1, 0>>, <<0, 1, 0, 0>>, <<5, 0, 1, 0>>, <<0, 1, 0, 5>>,
     <<6, 0, 1, 0>>, <<255, 255, 255, 255>>}

\* n bytes that tell their place
Body(n, c) == [i \in 1..n |-> (i * 7 + c) % 256]

\* header files: short ones, and a tag with a body of some length
HeaderFiles ==
    {<<>>, <<5>>, <<6, 0, 0>>}
    \cup {t \o Body(n, c) : t \in TagBytes, n \in {0, 7, 8, 27, 28, 35, 36, 40}, c \in {0, 100}}

Platforms == [big_endian : BOOLEAN, usize : {4, 8}]

\* channel holds the bytes of the file, jobs the platform, results what
\* parse returned
ParseInit ==
    /\ channel \in HeaderFiles
    /\ jobs \in Platforms
    /\ pc = "call"
    /\ results = <<>>
    /\ heap = <<>>
    /\ limit = 0
    /\ pushed = <<>>
    /\ qstate = "consumed"
    /\ fs = [x \in Nodes |-> Absent]
    /\ faults = 0
    /\ stats = ZeroStats
    /\ usage = 0
    /\ idx = 0
    /\ workers = <<>>
    /\ events = {}

ParseCall ==
    /\ pc = "call"
    /\ results' = <<ParseFile(channel, jobs)>>
    /\ pc' = "returned"
    /\ UNCHANGED <<heap, limit, pushed, qstate, fs, faults, jobs, stats, usage, idx,
                   channel, workers, events>>

ParseNext == ParseCall

SpecParse == ParseInit /\ [][ParseNext]_vars

\* the format tag of the file, read with the platform's byte order
TagOf(f, platform) == U32FromNeBytes(SubSeq(f, 1, 4), platform.big_endian)

IsTag(v, n) == v.hi = 0 /\ v.lo = n

\* C28: parse succeeds only for the tags 5 and 6: a Vary header's expiry is
\* the 8 bytes behind the tag, a Disk header's the last 8 bytes of the block
\* behind the tag; for every other tag it fails with InvalidData, the error
\* carries the tag, and there is no Header
C28_UnknownFormat ==
    (pc = "returned" /\ Len(channel) >= 4) =>
        LET r == results[1]
            v == TagOf(channel, jobs)
        IN  /\ r.ok =>
                \/ /\ IsTag(v, 5)
                   /\ r.format = "Vary"
                   /\ r.expiry = NeDigits(SubSeq(channel, 5, 12), jobs.big_endian)
                \/ /\ IsTag(v, 6)
                   /\ r.format = "Disk"
                   /\ r.expiry = NeDigits(SubSeq(channel, DiskBlock(jobs.usize) - 3,
                                                 DiskBlock(jobs.usize) + 4),
                                          jobs.big_endian)
            /\ ~(IsTag(v, 5) \/ IsTag(v, 6)) =>
                /\ ~r.ok
                /\ r.kind = "InvalidData"
                /\ r.tag = <<v>>
                /\ r.format = "" /\ r.expiry = <<>>

\* the tag 0xFFFFFFFF was refused
C28_Witness ==
    /\ pc = "returned"
    /\ Len(channel) = 12
    /\ SubSeq(channel, 1, 4) = <<255, 255, 255, 255>>
    /\ ~results[1].ok
    /\ results[1].kind = "InvalidData"
    /\ results[1].tag = <<[hi |-> 65535, lo |-> 65535]>>

\* a Disk header was decoded: its expiry is the end of the file
C28_Decoded ==
    /\ pc = "returned"
    /\ results[1].ok
    /\ results[1].format = "Disk"
    /\ jobs.usize = 8
    /\ Len(channel) = 40
    /\ results[1].expiry = NeDigits(SubSeq(channel, 33, 40), jobs.big_endian)

-----------------------------------------------------------------------------
(* A cache root that cannot be read *)

\* lib.rs 170: the first read_dir of the root fails and `?` returns the error
RootUnreadable ==
    /\ pc = "temp"
    /\ pc' = "failed"
    /\ usage' = 0
    /\ UNCHANGED <<qvars, fs, faults, jobs, stats, idx, channel, workers, events>>

\* a second read_dir whose error is seen after the workers were spawned
SpawnThenFail ==
    /\ pc = "spawn"
    /\ \E folders \in Shuffles(Children(fs, Root)) :
        LET chunks == Chunks(folders, ChunkSize(Len(folders), jobs))
        IN  workers' = [w \in 1..Len(chunks) |->
                           [state |-> "run", chunk |-> chunks[w], stack |-> <<>>,
                            pending |-> <<>>, desperate |-> FALSE]]
    /\ pc' = "failed"
    /\ UNCHANGED <<qvars, fs, faults, jobs, stats, usage, idx, channel, events>>

\* lib.rs 182: the second read_dir of the root fails, after the temporary
\* files of the root were cleaned
SpawnUnreadable ==
    /\ pc = "spawn"
    /\ pc' = "failed"
    /\ UNCHANGED <<qvars, fs, faults, jobs, stats, usage, idx, channel, workers, events>>

NextRoot == Next \/ RootUnreadable \/ SpawnUnreadable

SpecRoot == InitTemp /\ [][NextRoot]_vars

\* what process_folder_parallel returned: <<Stats>> for Ok, <<>> for Err or
\* while it runs
Returned == IF pc = "done" THEN <<stats>> ELSE <<>>

\* C30: when the cache root cannot be read, process_folder_parallel ends with
\* the error: no worker was spawned, nothing below the root was looked at,
\* nothing was queued or deleted from the queue, no Stats is returned, and
\* nothing happens afterwards
C30_UnreadableRootIsFatal ==
    pc = "failed" =>
        /\ workers = <<>>
        /\ channel = <<>> /\ heap = <<>> /\ pushed = <<>> /\ results = <<>>
        /\ \A e \in events : e.kind = "roottemp"
        /\ Returned = <<>>
        /\ ~ENABLED NextRoot

\* the root became unreadable after its old temporary file was removed
C30_Witness ==
    /\ pc = "failed"
    /\ \E e \in EventsOf("roottemp") : e.removed
    /\ stats.deleted = 1
    /\ \E x \in Nodes : Tree[x].parent # Root /\ Exists(fs, x)

-----------------------------------------------------------------------------
(* The scan phase and the deletion phase *)

\* how often the entry of header x lies in the sequence s
Times(s, x) == Cardinality({i \in 1..Len(s) : s[i].header_path = x})

\* how often the entry of header x waits in a worker's hands to be sent
Waiting(x) ==
    Cardinality({w \in DOMAIN workers :
                    workers[w].pending # <<>> /\ workers[w].pending[1].header_path = x})

\* C31: the deletion phase starts only when every worker has finished and the
\* channel is drained: while a worker runs no queued header is removed, every
\* entry a worker sends is on its way or pushed exactly once, and all of them
\* are pushed, once each, when into_sorted_vec() is called
C31_DeleteAfterScan ==
    /\ (Scanned \/ EventsOf("delete") # {} \/ qstate = "consumed") =>
        /\ \A w \in DOMAIN workers : workers[w].state = "done" /\ workers[w].pending = <<>>
        /\ channel = <<>>
        /\ results = pushed
        /\ \A e \in EventsOf("header") : e.sent => Times(pushed, e.node) = 1
    /\ \A e \in EventsOf("header") :
        e.sent => Waiting(e.node) + Times(channel, e.node) + Times(pushed, e.node) = 1
    /\ Len(pushed) = Cardinality({e \in EventsOf("header") : e.sent /\ Times(pushed, e.node) = 1})
    /\ \A d \in EventsOf("delete") : Times(pushed, d.node) = 1

\* the deletion phase begins: two workers, each of which sent an entry, are
\* done, and both entries are in the sorted vector
C31_Witness ==
    /\ pc = "delete"
    /\ idx = 0
    /\ Len(workers) = 2
    /\ Len(results) >= 2
    /\ \E i, j \in 1..Len(results) :
        Under(results[i].header_path, "a") /\ Under(results[j].header_path, "b")

\* node x is a file whose name ends in `.header`
IsHeaderFile(x) == ~Tree[x].dir /\ EndsWith(Tree[x].name, CACHE_HEADER_SUFFIX)

\* C32: the scanner removes no `.header` file: a header file disappears only
\* in a step of the deletion loop, as the header of the entry whose turn it
\* is, an entry that a worker sent and that is in the sorted vector once
C32_HeadersGoThroughQueue ==
    /\ [][\A x \in Nodes :
            IsHeaderFile(x) /\ fs[x].present /\ ~fs'[x].present =>
                /\ pc = "delete"
                /\ results[idx'].header_path = x
                /\ Times(results, x) = 1
                /\ \E e \in EventsOf("header") : e.node = x /\ e.sent
                /\ workers' = workers
                /\ \A w \in DOMAIN workers : workers[w].state = "done"]_vars
    /\ [](\A e \in events :
            e.kind \in {"roottemp", "temp", "data", "folder"} /\ e.tried =>
                ~IsHeaderFile(e.node))

\* a finished run whose scanner removed a data file and a folder, and whose
\* deletion loop removed a header
C32_Witness ==
    /\ pc = "done"
    /\ \E e \in events : e.kind \in {"data", "header"} /\ e.deleted = 1
    /\ \E d \in EventsOf("delete") : d.removed /\ IsHeaderFile(d.node) /\ ~Exists(fs, d.node)

\* C33: the usage is looked at only after a chunk: whenever entries were
\* queued, the first min(DeleteChunk, n) of them are tried before the first
\* look, whatever the usage is; a look that finds less than 99 % ends the
\* loop, and nothing more is tried
C33_FirstChunkAlways ==
    /\ [](pc \in {"check", "done"} /\ results # <<>> =>
            /\ idx >= Min(DeleteChunk, Len(results))
            /\ \A i \in 1..Min(DeleteChunk, Len(results)) :
                  \E e \in EventsOf("delete") :
                      e.order = i /\ e.node = results[i].header_path /\ e.tried)
    /\ [][/\ pc = "delete" /\ idx < Min(DeleteChunk, Len(results)) - 1 => pc' = "delete"
          /\ pc = "check" /\ usage' < USAGE_STOP =>
                pc' = "done" /\ idx' = idx /\ events' = events /\ fs' = fs
          /\ pc = "done" => idx' = idx /\ events' = events /\ fs' = fs]_vars

\* the first look at the usage found 90 %: a full chunk was tried all the
\* same, and the third entry was left
C33_Witness ==
    /\ pc = "done"
    /\ usage = USAGE_RUN
    /\ Len(results) = 3
    /\ idx = DeleteChunk
    /\ Cardinality(EventsOf("delete")) = DeleteChunk
    /\ Exists(fs, results[3].header_path)

-----------------------------------------------------------------------------
(* The workers and their chunks: the chunks are handed out as above, and
   each worker goes through its chunk *)

\* lib.rs 201-204: worker w calls process_folder on the next entry of its
\* chunk; pending keeps the entries it has called it on
ChunkProcess(w) ==
    /\ pc = "chunk"
    /\ Len(workers[w].pending) < Len(workers[w].chunk)
    /\ workers' = [workers EXCEPT
                      ![w].pending = Append(@, workers[w].chunk[Len(@) + 1])]
    /\ UNCHANGED <<qvars, fs, faults, pc, jobs, stats, usage, idx, channel, events>>

HandOutNext ==
    \/ ChunkSpawn
    \/ \E w \in DOMAIN workers : ChunkProcess(w)

SpecHandOut == ChunkInit /\ [][HandOutNext]_vars

\* the chunks of the workers 1..n, one after the other
RECURSIVE Handed(_)
Handed(n) == IF n = 0 THEN <<>> ELSE Handed(n - 1) \o workers[n].chunk

\* how often entry x occurs in the sequence s
Occurs(s, x) == Cardinality({i \in 1..Len(s) : s[i] = x})

\* every chunk is handed out and every worker is through its chunk
HandOutDone ==
    /\ idx = Len(results)
    /\ \A w \in DOMAIN workers : Len(workers[w].pending) = Len(workers[w].chunk)

\* C34: the chunks partition the shuffled root entries: what is handed out is
\* the vector itself, piece by piece, so each entry goes to one worker; no
\* worker is given process_folder on an entry twice, none on another's entry,
\* and in the end each entry was scanned once; there are at most `jobs` workers
C34_ChunksPartition ==
    pc = "chunk" =>
        /\ Len(workers) <= jobs
        /\ Handed(Len(workers)) = SubSeq(results, 1, idx)
        /\ \A w \in DOMAIN workers :
              workers[w].pending = SubSeq(workers[w].chunk, 1, Len(workers[w].pending))
        /\ \A i \in 1..Len(results) :
              /\ Cardinality({w \in DOMAIN workers : Occurs(workers[w].chunk, i) > 0})
                   = IF i <= idx THEN 1 ELSE 0
              /\ \A w \in DOMAIN workers :
                    Occurs(workers[w].chunk, i) <= 1 /\ Occurs(workers[w].pending, i) <= 1
              /\ HandOutDone =>
                    Cardinality({w \in DOMAIN workers : Occurs(workers[w].pending, i) = 1}) = 1

\* ten entries and four jobs: four workers with chunks of 3, 3, 3 and 1, all
\* through
C34_Witness ==
    /\ pc = "chunk"
    /\ Len(results) = 10 /\ jobs = 4
    /\ HandOutDone
    /\ Len(workers) = 4
    /\ workers[4].pending = <<10>>


-----------------------------------------------------------------------------
(* Times later than `now` *)

\* ages around the rule of `seconds` seconds, with a time of modification or
\* of access one second later than `now`
LaterAges(seconds) ==
    {Aged(seconds + 1, seconds + 1), Aged(-1, seconds + 1), Aged(seconds + 1, -1)}

\* Trees with a temporary file in the root and one in folder `a`, an orphaned
\* data file, an empty vary directory and a folder `b/e`, whose times are old
\* or later than `now`, folder `b/e` being empty, or old and holding an old
\* orphan, cleaned by one job;
\* the environment may fail one system call
InitLater ==
    /\ Idle
    /\ jobs = 1
    /\ faults \in 0..MaxFaults
    /\ \E t \in LaterAges(600), d \in LaterAges(120), g \in LaterAges(300),
          c \in BOOLEAN :
        fs = TreeOf(
              (IF c THEN [x \in {"b/e/z.data"} |-> Aged(121, 121)] ELSE <<>>)
           @@ [x \in {"aptmpABCDEF", "a", "a/aptmpGHIJKL", "a/v.data",
                      "a/v.header.vary", "b", "b/e", "b/y.header", "b/y.data"} |->
                  CASE x \in {"aptmpABCDEF", "a/aptmpGHIJKL"} -> t
                    [] x = "a/v.data" -> d
                    [] x = "a/v.header.vary" -> g
                    [] x = "b/e" -> IF c THEN Aged(301, 301) ELSE g
                    [] x = "b/y.header" -> HeaderFile(6, 100, 400, 400)
                    [] OTHER -> Aged(400, 400)])

SpecLater == InitLater /\ [][Next]_vars

\* C35, as stated: no temporary file, orphaned data file or directory whose
\* time of modification or of access on disk is later than `now` is removed
\* by the age rules
C35_NoRemovalLaterOnDisk ==
    /\ \A e \in events :
          e.kind \in {"roottemp", "temp", "data"}
          /\ (e.modified > Now \/ e.accessed > Now) => ~e.removed
    /\ \A e \in EventsOf("folder") :
          (e.current > Now \/ e.modified > Now \/ e.accessed > Now) => ~e.removed

\* C35: `now` is one value for the whole run, and an age rule whose metadata
\* shows a time of modification or of access later than `now` tries no
\* removal: a temporary file or an orphaned data file with such a time on
\* disk stays, and so does a vary directory, whose metadata is read after the
\* recursion; an other directory is tested on the metadata read before the
\* recursion
C35_NoRemovalOnLaterTimes ==
    /\ \A e \in events :
          e.kind \in {"roottemp", "temp", "data"}
          /\ (e.modified > Now \/ e.accessed > Now) =>
              ~e.tried /\ ~e.removed /\ e.deleted = 0 /\ fs[e.node].present
    /\ \A e \in EventsOf("folder") :
          (e.modified > Now \/ e.accessed > Now) =>
              ~e.tried /\ ~e.removed /\ e.folders = 0 /\ fs[e.node].present
    /\ \A e \in EventsOf("folder") :
          EndsWith(Tree[e.node].name, CACHE_VDIR_SUFFIX) => e.modified = e.current

\* the run has ended; a temporary file in the root, one in a folder and an
\* orphaned data file whose times are later than `now` were examined and are
\* still there, and so is a vary directory modified later than `now`, while
\* folder `b/e`, which the scan had just emptied, was removed
C35_Witness ==
    /\ pc = "done"
    /\ \A k \in {"roottemp", "temp", "data"} :
          \E e \in EventsOf(k) :
              (e.modified > Now \/ e.accessed > Now) /\ e.file /\ fs[e.node].present
    /\ \E e \in EventsOf("folder") :
          /\ e.node = "a/v.header.vary" /\ e.empty /\ e.nlink = 2
          /\ e.modified > Now /\ fs[e.node].present
    /\ \E e \in EventsOf("folder") :
          e.node = "b/e" /\ e.current = Later /\ e.removed /\ ~fs[e.node].present


-----------------------------------------------------------------------------
(* The order and the equality of CacheFileInfo *)

\* cache_file_info.rs 13: the derived PartialEq, field by field, the header
\* information by its format and its expiry (apache_cache.rs 32)
DerivedEq(a, b) ==
    /\ CmpPath(a.header_path, b.header_path) = 0
    /\ a.format = b.format
    /\ a.expiry = b.expiry
    /\ a.modified = b.modified
    /\ a.accessed = b.accessed

\* the entries compared: two paths, both formats, and times of expiry and of
\* access before, at and after the time of modification
EqItems ==
    [header_path : {"a/v.header", "b/y.header"}, format : {"Disk", "Vary"},
     expiry : {1 * MicrosPerSec, 2 * MicrosPerSec, 3 * MicrosPerSec},
     modified : {2 * MicrosPerSec, 3 * MicrosPerSec},
     accessed : {1 * MicrosPerSec, 2 * MicrosPerSec, 3 * MicrosPerSec}]

\* results holds the two entries; usage will hold what cmp returned and idx
\* whether == held
EqInit ==
    /\ results \in [1..2 -> EqItems]
    /\ limit = MAX_DELETE_COUNT
    /\ heap = <<>>
    /\ pushed = <<>>
    /\ qstate = "consumed"
    /\ fs = [x \in Nodes |-> Absent]
    /\ faults = 0
    /\ pc = "call"
    /\ jobs = 1
    /\ stats = ZeroStats
    /\ usage = 0
    /\ idx = 0
    /\ channel = <<>>
    /\ workers = <<>>
    /\ events = {}

\* a.cmp(&b) and a == b
EqCompare ==
    /\ pc = "call"
    /\ usage' = Cmp(results[1], results[2])
    /\ idx' = IF DerivedEq(results[1], results[2]) THEN 1 ELSE 0
    /\ pc' = "returned"
    /\ UNCHANGED <<qvars, fs, faults, jobs, stats, channel, workers, events>>

EqNext == EqCompare

SpecEq == EqInit /\ [][EqNext]_vars

\* C36, as stated: a.cmp(b) is Equal if and only if a == b
C36_OrdConsistentWithEq ==
    pc = "returned" => (usage = 0 <=> idx = 1)

\* equal entries compare Equal
C36_EqImpliesEqual ==
    pc = "returned" /\ idx = 1 => usage = 0

\* two entries for the same path, modified at the same time, that expired
\* at different times before that: cmp returned Equal, == is false
C36_FailingInput ==
    /\ pc = "returned"
    /\ results[1].header_path = results[2].header_path
    /\ results[1].modified = results[2].modified
    /\ results[1].expiry < results[2].expiry
    /\ results[2].expiry <= results[2].modified
    /\ results[1].accessed = results[2].accessed
    /\ results[1].format = results[2].format
    /\ usage = 0
    /\ idx = 0


-----------------------------------------------------------------------------
(* The metadata of a folder, before and after the recursion *)

\* Trees with a vary directory whose variant folder `s` holds an orphaned
\* data file, and a folder `b/e` holding an empty folder, of several ages,
\* cleaned by one job; the environment may fail one system call
InitStale ==
    /\ Idle
    /\ jobs = 1
    /\ faults \in 0..MaxFaults
    /\ \E g \in FolderAges, h \in FolderAges, d \in DataAges :
        fs = TreeOf(
              [x \in {"a", "a/v.header.vary", "a/v.header.vary/s",
                      "a/v.header.vary/s/w.data",
                      "b", "b/e", "b/e/f", "b/y.header", "b/y.data"} |->
                  CASE x = "a/v.header.vary" -> g
                    [] x = "a/v.header.vary/s/w.data" -> d[1]
                    [] x = "b/e" -> g
                    [] x = "b/e/f" -> h
                    [] x = "b/y.header" -> HeaderFile(6, 100, 400, 400)
                    [] OTHER -> Aged(400, 400)])

SpecStale == InitStale /\ [][Next]_vars

\* the directory is one scan_folder takes for a vary directory
IsVaryDir(x) == EndsWith(Tree[x].name, CACHE_VDIR_SUFFIX)

\* C37: on entering a directory the scanner keeps the metadata it has just
\* read if the directory is not a vary directory, and nothing if it is one;
\* when the recursion returns, the folder deletion tests the metadata kept, or
\* for a vary directory what is on disk then.  So a directory other than a
\* vary directory that had nlink > 2 before the recursion is never removed in
\* this run, even when the recursion has emptied it, while a vary directory
\* is tested on its link count and times after the recursion
C37_MetadataBeforeRecursion ==
    /\ [](\A e \in EventsOf("folder") :
            /\ ~IsVaryDir(e.node) /\ e.nlink > 2 =>
                  ~e.tried /\ ~e.removed /\ e.folders = 0 /\ fs[e.node].present
            /\ IsVaryDir(e.node) =>
                  /\ e.modified = e.current
                  /\ e.nlink > 2 => ~e.empty)
    /\ [][\A w \in DOMAIN workers :
            w \in DOMAIN workers' =>
                LET n == Len(workers[w].stack)
                    m == Len(workers'[w].stack)
                IN  /\ n >= 1 /\ m = n + 1 =>
                          LET f == workers'[w].stack[m]
                          IN  f.meta = IF IsVaryDir(f.dir) THEN <<>>
                                       ELSE <<Metadata(fs, f.dir)>>
                    /\ n >= 2 /\ m = n - 1 =>
                          LET f == workers[w].stack[n]
                              used == IF f.meta = <<>> THEN Metadata(fs, f.dir)
                                      ELSE f.meta[1]
                          IN  \E e \in events' \ events :
                                  /\ e.kind = "folder" /\ e.node = f.dir
                                  /\ e.modified = used.modified
                                  /\ e.accessed = used.accessed
                                  /\ e.nlink = used.nlink
                                  /\ e.current = fs[f.dir].mtime]_vars

\* the run has ended: folder `b/e`, which had nlink 3 before the recursion
\* and which the recursion emptied, is still there and no removal was tried;
\* variant folder `s` was removed on its old times although the removal of
\* its orphan had just modified it; the vary directory, read after that, was
\* found modified later than `now` and stays
C37_Witness ==
    /\ pc = "done"
    /\ \E e \in EventsOf("folder") :
          /\ e.node = "b/e" /\ e.nlink = 3 /\ e.empty /\ ~e.tried
          /\ AtLeast(e.modified, 300) /\ AtLeast(e.accessed, 300)
          /\ fs[e.node].present /\ ~fs["b/e/f"].present
    /\ \E e \in EventsOf("folder") :
          /\ e.node = "a/v.header.vary/s" /\ e.removed /\ ~fs[e.node].present
          /\ e.current = Later /\ AtLeast(e.modified, 300)
    /\ \E e \in EventsOf("folder") :
          /\ e.node = "a/v.header.vary" /\ e.empty /\ e.nlink = 2
          /\ e.modified = Later /\ ~e.tried /\ fs[e.node].present


-----------------------------------------------------------------------------
(* The entries of the cache root *)

\* the records of process_folder being called on root entry x
CalledOn(x) == {e \in events : e.kind \in {"begin", "readdir"} /\ e.node = x}

\* the workers whose chunk still holds root entry x
Holding(x) == {w \in DOMAIN workers : Occurs(workers[w].chunk, x) > 0}

\* C38: once the workers are spawned, every entry of the cache root is in
\* one worker's chunk, once, until process_folder has been called on it, which
\* happens once; only a directory is entered; for an entry that is no
\* directory, or whose read_dir fails, the call changes nothing on disk,
\* sends nothing, and adds 1 to failed and nothing to the other counters
C38_RootEntriesAreScanned ==
    /\ [](pc \in {"drain", "delete", "check", "done"} =>
            \A x \in Children(fs, Root) :
                /\ Cardinality(Holding(x)) <= 1
                /\ \A w \in Holding(x) : Occurs(workers[w].chunk, x) = 1
                /\ Cardinality(CalledOn(x)) <= 1
                /\ Holding(x) # {} \/ CalledOn(x) # {}
                /\ Holding(x) = {} => Cardinality(CalledOn(x)) = 1
                /\ ~Tree[x].dir => \A e \in CalledOn(x) : e.kind = "readdir")
    /\ [](\A e \in EventsOf("readdir") :
            Tree[e.node].parent = Root =>
                e.failed = 1 /\ e.deleted = 0 /\ e.folders = 0 /\ fs[e.node].present)
    /\ [][\A x \in Nodes :
            /\ Tree[x].parent = Root
            /\ \E e \in events' \ events : e.kind = "readdir" /\ e.node = x
            => /\ fs' = fs
               /\ stats' = AddFailed(stats)
               /\ channel' = channel
               /\ UNCHANGED qvars]_vars

\* the run has ended: the temporary file of the root, aged 599 s, was left by
\* the temp-file pass, was handed to the worker, and is still there; it made
\* the one failure counted
C38_Witness ==
    /\ pc = "done"
    /\ fs["aptmpABCDEF"] = Aged(599, 599)
    /\ \E e \in EventsOf("roottemp") : e.node = "aptmpABCDEF" /\ ~e.tried
    /\ \E e \in EventsOf("readdir") : e.node = "aptmpABCDEF" /\ e.failed = 1
    /\ \A e \in EventsOf("readdir") : e.node = "aptmpABCDEF"
    /\ \A w \in DOMAIN workers : workers[w].state = "done"
    /\ stats.failed = 1

====
